---- MODULE Spec2Model ----
(***************************************************************************)
(* A model of the context-aware relevance engine of mcp-agent-memory-pro:  *)
(* the memories table, the memory_recall_context tool (context analysis,   *)
(* candidate retrieval, relevance scoring), the memory_suggestions tool,   *)
(* and memory_store and memory_search over the memories table, the LanceDB *)
(* table and the statistics.                                               *)
(* Times are epoch milliseconds, scores are kept in 1/10000 and            *)
(* reported in 1/1000 (the code rounds to three decimals), importance is   *)
(* kept in 1/1000.                                                         *)
(***************************************************************************)
EXTENDS Integers, Sequences, FiniteSets, TLC

VARIABLES store, now, last, vectors, statistics, inflight, searched

vars == <<store, now, last, vectors, statistics, inflight, searched>>

(***************************************************************************)
(* Values                                                                  *)
(***************************************************************************)
\* SQL NULL / JS null for a text column
NULL == "<null>"
\* SQL NULL for a numeric column (sorts below every number, as in SQLite)
NULLNUM == -1

MinuteMs == 60000
DayMs == 86400000

Min(a, b) == IF a < b THEN a ELSE b
Max(a, b) == IF a > b THEN a ELSE b

(***************************************************************************)
(* Sequences: the JavaScript array and SQL result-set operations used      *)
(***************************************************************************)
\* The elements of a set of indexes, ascending
IdxSeq(S) ==
  [k \in 1..Cardinality(S) |-> CHOOSE i \in S : Cardinality({j \in S : j < i}) = k - 1]

\* Array.prototype.filter keeping order
Filter(s, Keep(_)) == SelectSeq(s, Keep)

\* Array.prototype.map
Map(s, F(_)) == [i \in 1..Len(s) |-> F(s[i])]

\* Array.prototype.sort with a comparator: stable; Before(a, b) iff the
\* comparator puts a strictly before b
StableSort(s, Before(_, _)) ==
  LET n == Len(s)
      pos == [i \in 1..n |->
                Cardinality({j \in 1..n : Before(s[j], s[i])})
                + Cardinality({j \in 1..(i - 1) : ~Before(s[i], s[j]) /\ ~Before(s[j], s[i])})
                + 1]
  IN [k \in 1..n |-> s[CHOOSE i \in 1..n : pos[i] = k]]

\* Array.prototype.slice(0, n): a negative n counts from the end
JsSlice0(s, n) ==
  IF n >= 0 THEN SubSeq(s, 1, Min(n, Len(s)))
  ELSE SubSeq(s, 1, Max(0, Len(s) + n))

\* SQL LIMIT n: SQLite treats a negative LIMIT as no limit
SqlLimit(s, n) == IF n < 0 THEN s ELSE SubSeq(s, 1, Min(n, Len(s)))

\* The distinct elements of s in order of first occurrence: the key order of
\* a JS object used as a counter (Object.entries)
FirstSeen(s) ==
  LET keep == {i \in 1..Len(s) : \A j \in 1..(i - 1) : s[j] # s[i]}
      idx == IdxSeq(keep)
  IN [k \in 1..Len(idx) |-> s[idx[k]]]

Range(s) == {s[i] : i \in 1..Len(s)}

\* counts[key]
Count(s, key) == Cardinality({i \in 1..Len(s) : s[i] = key})

\* Object.entries(counts).sort((a, b) => b[1] - a[1]).map(([k]) => k)
ByCountDesc(s) ==
  LET keys == FirstSeen(s)
      counts == [k \in Range(keys) |-> Count(s, k)]
      more(a, b) == counts[a] > counts[b]
  IN StableSort(keys, more)

RECURSIVE Flatten(_)
Flatten(ss) == IF ss = <<>> THEN <<>> ELSE Head(ss) \o Flatten(Tail(ss))

(***************************************************************************)
(* Text columns                                                            *)
(*                                                                         *)
(* content is a sequence of tokens; the text is the tokens joined by one   *)
(* blank.  "\n" is the line break.  entities is the raw text of the column:*)
(* absent (kind "null"), a JSON array of names (kind "json"), text that    *)
(* JSON.parse rejects (kind "bad"; names are then the words of the text)   *)
(* or the JSON text of one string (kind "string"; names are then the       *)
(* characters of the string).                                              *)
(***************************************************************************)
NoEntities == [kind |-> "null", names |-> <<>>]
JsonEntities(names) == [kind |-> "json", names |-> names]
BadEntities(names) == [kind |-> "bad", names |-> names]
StringEntities(chars) == [kind |-> "string", names |-> chars]

\* if (memory.entities): null and the empty string are falsy
EntitiesTruthy(e) == e.kind # "null"

\* JSON.parse(memory.entities) inside try/catch, then for...of or new Set
\* over the value: the elements of the parsed array, the characters of a
\* parsed string, or nothing when the parse throws
ParsedEntities(e) == IF e.kind \in {"json", "string"} THEN e.names ELSE <<>>

\* needle occurs in hay (String.prototype.includes, SQL LIKE '%needle%'),
\* for the names and words of the model
SubstringOf(needle, hay) ==
  \/ needle = hay
  \/ <<needle, hay>> \in { <<"fetch", "fetchUser">>,
                           <<"fix", "prefix">>,
                           <<"bug", "debug">>,
                           <<"error", "errors">>,
                           <<"todo", "todos">>,
                           <<"hack", "hacker">> }

\* entities LIKE '%name%': a match on the raw text, parsable or not
EntitiesLike(e, name) ==
  /\ e.kind # "null"
  /\ \E i \in 1..Len(e.names) : SubstringOf(name, e.names[i])

\* String.prototype.toLowerCase on a token
ToLower(tok) ==
  CASE tok = "TODO" -> "todo"
    [] tok = "FIXME" -> "fixme"
    [] tok = "HACK" -> "hack"
    [] tok = "Error" -> "error"
    [] tok = "Exception" -> "exception"
    [] tok = "Failed" -> "failed"
    [] OTHER -> tok

\* the length of a token in characters
TokLen(tok) ==
  CASE tok = "<pad95>" -> 95
    [] tok = "<pad195>" -> 195
    [] tok = "<pad295>" -> 295
    [] tok = "\n" -> 1
    [] tok = "error" -> 5
    [] tok = "Error" -> 5
    [] tok = "exception" -> 9
    [] tok = "traceback" -> 9
    [] tok = "failed" -> 6
    [] tok = "prefix" -> 6
    [] tok = "debug" -> 5
    [] tok = "bug" -> 3
    [] tok = "fix" -> 3
    [] OTHER -> 4

\* the position just after token i of c (tokens are joined by one blank)
RECURSIVE EndOf(_, _)
EndOf(c, i) == IF i = 0 THEN 0 ELSE EndOf(c, i - 1) + TokLen(c[i]) + (IF i > 1 THEN 1 ELSE 0)

\* String.prototype.slice(0, n): the tokens that fit whole in the first n
\* characters; a token the cut falls into is left as the fragment "<cut>"
StrSlice0(c, n) ==
  LET whole == {i \in 1..Len(c) : EndOf(c, i) <= n}
      k == Cardinality(whole)
  IN IF k = Len(c) THEN c
     ELSE IF EndOf(c, k) + 1 < n THEN SubSeq(c, 1, k) \o <<"<cut>">>
     ELSE SubSeq(c, 1, k)

\* text.includes(word) / content LIKE '%word%' over the lower-cased text
TextIncludes(c, word) == \E i \in 1..Len(c) : SubstringOf(word, ToLower(c[i]))

(***************************************************************************)
(* The memories table (schemas.sql).  A row's id is its rowid.             *)
(***************************************************************************)
Row(id, ts, archived, project, file_path, type, content, hash, entities, imp, acc, la) ==
  [ id |-> id, tier |-> "short", timestamp |-> ts, archived |-> archived, project |-> project,
    file_path |-> file_path, type |-> type, content |-> content,
    content_hash |-> hash, entities |-> entities, importance_score |-> imp,
    access_count |-> acc, last_accessed |-> la ]

\* all rows, in rowid order
Rows(st) == st

\* a record of the LanceDB table: the metadata kept next to the embedding
VectorRecord(id, content, timestamp, type, tier, project) ==
  [ id |-> id, content |-> content, timestamp |-> timestamp, type |-> type,
    tier |-> tier, project |-> project ]

\* the record initializeVectorStore creates the table with: it has no row in
\* the memories table (id 0 stands for 'init')
SampleRecord == VectorRecord(0, <<"init">>, 0, "init", "init", "init")

\* the LanceDB table when every row of the memories table was written by the
\* store tool: the sample record, then one record per row, with the row's
\* metadata
VectorsOf(st) ==
  <<SampleRecord>> \o
  [i \in 1..Len(st) |->
     VectorRecord(st[i].id, st[i].content, st[i].timestamp, st[i].type, st[i].tier,
                  st[i].project)]

\* the statistics table: one count per stored memory, no search yet
StatisticsOf(st) == [total_memories |-> Len(st), total_searches |-> 0]

\* ORDER BY timestamp DESC (ties in index order, that is by rowid)
NewestFirst(rows) ==
  LET newer(a, b) == a.timestamp > b.timestamp
  IN StableSort(rows, newer)

\* file_path LIKE '%hint%' for the paths of the model
PathLike(path, hint) ==
  /\ path # NULL
  /\ \/ path = hint
     \/ <<hint, path>> \in { <<"auth", "src/auth.ts">>, <<"src", "src/auth.ts">>,
                             <<"src", "src/db.ts">> }

(***************************************************************************)
(* memory_recall_context: the context analyzer                             *)
(***************************************************************************)
\* LIMIT 50 of the recent-activity query
RecentLimit == 50
\* recentMemories.slice(0, 10) of inferContextType
ContentScanCount == 10
\* .slice(0, 200) of inferContextType
ContentScanChars == 200
\* topEntity[1] >= 3, topFile[1] >= 3
FocusThreshold == 3
\* sortedProjects.slice(0, 3)
MaxActiveProjects == 3
\* sortedEntities .slice(0, 10)
MaxActiveEntities == 10

\* if (input.project), if (input.file_path): unset and '' are falsy
Truthy(str) == str # NULL /\ str # ""

\* const cutoffTime = Date.now() - input.recent_minutes * 60 * 1000
CutoffTime(t, inp) == t - inp.recent_minutes * MinuteMs

\* WHERE timestamp > ? AND archived = 0 [AND project = ?] [AND file_path LIKE ?]
RecentWhere(r, cutoff, inp) ==
  /\ r.timestamp > cutoff
  /\ ~r.archived
  /\ (Truthy(inp.project) => r.project = inp.project)
  /\ (Truthy(inp.file_path) => PathLike(r.file_path, inp.file_path))

\* the recent-activity query of recallContext
RecentMemories(st, cutoff, inp) ==
  LET match(r) == RecentWhere(r, cutoff, inp)
  IN SqlLimit(NewestFirst(Filter(Rows(st), match)), RecentLimit)

ErrorKeywords == <<"error", "exception", "traceback", "failed", "bug", "fix">>

\* typeMap[primaryType || ''] || 'general'
TypeMap(type) ==
  CASE type = "code" -> "coding"
    [] type = "command" -> "system_admin"
    [] type = "conversation" -> "planning"
    [] type = "note" -> "documentation"
    [] type = "decision" -> "planning"
    [] type = "insight" -> "analysis"
    [] OTHER -> "general"

\* the content scan without its cut to the ten newest
ScannedMemoriesAll(recentMemories) == recentMemories

\* recentMemories.slice(0, 10)
ScannedMemories(recentMemories) == JsSlice0(recentMemories, ContentScanCount)

\* inferContextType of the tool; ContextClient.inferContextType is the same
\* code
inferContextType(types, recentMemories) ==
  LET sortedTypes == ByCountDesc(types)
      primaryType == IF Len(sortedTypes) > 0 THEN sortedTypes[1] ELSE ""
      scanned == ScannedMemories(recentMemories)
      lowered(m) == StrSlice0(m.content, ContentScanChars)
      hit == \E i \in 1..Len(scanned) : \E k \in 1..Len(ErrorKeywords) :
               TextIncludes(lowered(scanned[i]), ErrorKeywords[k])
  IN IF hit THEN "debugging" ELSE TypeMap(primaryType)

NoFocus == [kind |-> "null", value |-> NULL]

\* the tool's inferFocus: the top entity is looked at before the top file
inferFocus(recentMemories, entityNames) ==
  LET sortedEntities == ByCountDesc(entityNames)
      hasPath(m) == Truthy(m.file_path)
      pathOf(m) == m.file_path
      files == Map(Filter(recentMemories, hasPath), pathOf)
      sortedFiles == ByCountDesc(files)
  IN IF Len(recentMemories) = 0 THEN NoFocus
     ELSE IF Len(sortedEntities) > 0 /\ Count(entityNames, sortedEntities[1]) >= FocusThreshold
       THEN [kind |-> "entity", value |-> sortedEntities[1]]
     ELSE IF Len(sortedFiles) > 0 /\ Count(files, sortedFiles[1]) >= FocusThreshold
       THEN [kind |-> "file", value |-> sortedFiles[1]]
     ELSE NoFocus

InactiveContext ==
  [ active |-> FALSE, context_type |-> NULL, primary_project |-> NULL,
    active_projects |-> <<>>, active_entities |-> <<>>,
    current_focus |-> NoFocus, recent_activity_count |-> 0 ]

\* TopProjects without the cut to three
TopProjectsAll(sortedProjects) == sortedProjects

\* slice(0, 3) of the projects by count
TopProjects(sortedProjects) == JsSlice0(sortedProjects, MaxActiveProjects)

analyzeContext(recentMemories) ==
  LET hasProject(m) == Truthy(m.project)
      projectOf(m) == m.project
      typeOf(m) == m.type
      hasType(m) == Truthy(m.type)
      entitiesOf(m) == IF EntitiesTruthy(m.entities) THEN ParsedEntities(m.entities) ELSE <<>>
      projects == Map(Filter(recentMemories, hasProject), projectOf)
      types == Map(Filter(recentMemories, hasType), typeOf)
      entityNames == Flatten(Map(recentMemories, entitiesOf))
      sortedProjects == ByCountDesc(projects)
      sortedEntities == JsSlice0(ByCountDesc(entityNames), MaxActiveEntities)
  IN IF Len(recentMemories) = 0 THEN InactiveContext
     ELSE [ active |-> TRUE,
            context_type |-> inferContextType(types, recentMemories),
            primary_project |-> IF Len(sortedProjects) > 0 THEN sortedProjects[1] ELSE NULL,
            active_projects |-> TopProjects(sortedProjects),
            active_entities |-> sortedEntities,
            current_focus |-> inferFocus(recentMemories, entityNames),
            recent_activity_count |-> Len(recentMemories) ]

(***************************************************************************)
(* memory_recall_context: the relevance scorer (scores in 1/10000)         *)
(***************************************************************************)
\* score += 0.35
PrimaryProjectWeight == 3500
\* score += 0.2
ActiveProjectWeight == 2000
\* Math.min(0.3, overlap * 0.1)
EntityOverlapCap == 3000
EntityOverlapUnit == 1000
\* (memory.importance_score || 0.5) * 0.2, importance in 1/1000
DefaultImportance == 500
ImportanceFactor == 2
\* Math.min(1, access_count / 10) * 0.1
AccessCap == 1000
AccessUnit == 100
\* (memory.importance_score || 0) >= 0.7
HighImportance == 700
\* relevance_score > 0.5, in 1/1000
HighRelevance == 500

\* context.active_entities.filter((e) => memoryEntities.has(e))
EntityOverlap(memory, context) ==
  LET memoryEntities == Range(ParsedEntities(memory.entities))
      shared(e) == e \in memoryEntities
  IN IF EntitiesTruthy(memory.entities) /\ Len(context.active_entities) > 0
     THEN Filter(context.active_entities, shared)
     ELSE <<>>

ProjectTerm(memory, context) ==
  IF memory.project = context.primary_project THEN PrimaryProjectWeight
  ELSE IF Truthy(memory.project) /\ memory.project \in Range(context.active_projects)
    THEN ActiveProjectWeight
  ELSE 0

\* EntityTerm without the cap of 0.3
EntityTermUncapped(memory, context) ==
  Len(EntityOverlap(memory, context)) * EntityOverlapUnit

EntityTerm(memory, context) ==
  Min(EntityOverlapCap, Len(EntityOverlap(memory, context)) * EntityOverlapUnit)

\* memory.importance_score || 0.5: NULL and 0 are falsy
ImportanceOrDefault(imp) == IF imp = NULLNUM \/ imp = 0 THEN DefaultImportance ELSE imp

ImportanceTerm(memory) == ImportanceOrDefault(memory.importance_score) * ImportanceFactor

AccessTerm(memory) == Min(AccessCap, memory.access_count * AccessUnit)

\* Math.round(score * 1000) / 1000, the result in 1/1000
Round3(score10k) == (score10k + 5) \div 10

calculateRelevance(memory, context) ==
  Round3(ProjectTerm(memory, context) + EntityTerm(memory, context)
         + ImportanceTerm(memory) + AccessTerm(memory))

NoReason == [kind |-> "general", project |-> NULL, names |-> <<>>]

getRecallReason(memory, context) ==
  LET overlap == EntityOverlap(memory, context)
      same == IF Truthy(memory.project) /\ memory.project = context.primary_project
              THEN << [kind |-> "same_project", project |-> memory.project, names |-> <<>>] >>
              ELSE <<>>
      related == IF Len(overlap) > 0
                 THEN << [kind |-> "related_entities", project |-> NULL,
                          names |-> JsSlice0(overlap, 3)] >>
                 ELSE <<>>
      high == IF memory.importance_score # NULLNUM /\ memory.importance_score >= HighImportance
              THEN << [kind |-> "high_importance", project |-> NULL, names |-> <<>>] >>
              ELSE <<>>
      reasons == same \o related \o high
  IN IF Len(reasons) > 0 THEN reasons ELSE <<NoReason>>

(***************************************************************************)
(* memory_recall_context: the recall engine                                *)
(***************************************************************************)
\* context.active_entities.slice(0, 5)
RecallEntityTerms == 5
\* memory.content?.slice(0, 300)
RecallContentChars == 300

\* CandidateWhere with the window's edge let in (timestamp <= ?)
CandidateWhereEdgeIn(r, context, excludeCutoff) ==
  LET terms == JsSlice0(context.active_entities, RecallEntityTerms)
  IN /\ (Len(context.active_projects) > 0 => r.project \in Range(context.active_projects))
     /\ (Len(context.active_entities) > 0 =>
           \E i \in 1..Len(terms) : EntitiesLike(r.entities, terms[i]))
     /\ r.timestamp <= excludeCutoff
     /\ ~r.archived

\* the WHERE clause recallRelevantMemories builds: conditions.join(' AND ')
CandidateWhere(r, context, excludeCutoff) ==
  LET terms == JsSlice0(context.active_entities, RecallEntityTerms)
  IN /\ (Len(context.active_projects) > 0 => r.project \in Range(context.active_projects))
     /\ (Len(context.active_entities) > 0 =>
           \E i \in 1..Len(terms) : EntitiesLike(r.entities, terms[i]))
     /\ r.timestamp < excludeCutoff
     /\ ~r.archived

\* ORDER BY importance_score DESC, access_count DESC, timestamp DESC
CandidateOrder(rows) ==
  LET before(a, b) ==
        \/ a.importance_score > b.importance_score
        \/ /\ a.importance_score = b.importance_score
           /\ \/ a.access_count > b.access_count
              \/ /\ a.access_count = b.access_count
                 /\ a.timestamp > b.timestamp
  IN StableSort(rows, before)

\* the number of WHERE conditions recallRelevantMemories has pushed when it
\* tests conditions.length === 0
ConditionCount(context) ==
  (IF Len(context.active_projects) > 0 THEN 1 ELSE 0)
  + (IF Len(context.active_entities) > 0 THEN 1 ELSE 0)
  + 2

\* scored.sort((a, b) => b.relevance_score - a.relevance_score)
ByRelevance(scored) ==
  LET higher(a, b) == a.relevance_score > b.relevance_score
  IN StableSort(scored, higher)

\* the rows the candidate query returns, LIMIT limit * 2
Candidates(st, context, excludeCutoff, limit) ==
  LET match(r) == CandidateWhere(r, context, excludeCutoff)
  IN SqlLimit(CandidateOrder(Filter(Rows(st), match)), limit * 2)

\* scored, before the sort
Scored(st, context, excludeCutoff, limit) ==
  LET score(memory) ==
        [ id |-> memory.id, type |-> memory.type,
          content |-> StrSlice0(memory.content, RecallContentChars),
          project |-> memory.project,
          relevance_score |-> calculateRelevance(memory, context),
          recall_reason |-> getRecallReason(memory, context) ]
  IN Map(Candidates(st, context, excludeCutoff, limit), score)

recallRelevantMemories(st, context, excludeCutoff, limit) ==
  IF ConditionCount(context) = 0 THEN <<>>
  ELSE JsSlice0(ByRelevance(Scored(st, context, excludeCutoff, limit)), limit)

generateContextSuggestions(context, recalled) ==
  LET high(m) == m.relevance_score > HighRelevance
      highRelevance == Filter(recalled, high)
  IN (IF context.context_type = "debugging"
      THEN << [text |-> "Consider checking past error resolutions for similar issues.",
               n |-> 0, value |-> NULL] >>
      ELSE <<>>)
     \o (IF Len(recalled) > 0 /\ Len(highRelevance) > 0
         THEN << [text |-> "Found n highly relevant past memories.",
                  n |-> Len(highRelevance), value |-> NULL] >>
         ELSE <<>>)
     \o (IF context.current_focus.kind = "entity"
         THEN << [text |-> "Deep focus on value detected. Related memories recalled.",
                  n |-> 0, value |-> context.current_focus.value] >>
         ELSE <<>>)

NoActivitySuggestion ==
  [text |-> "No recent activity detected. Start working to build context.",
   n |-> 0, value |-> NULL]

\* recallContext without the early return for an inactive context
recallContextNoEarlyReturn(st, t, inp) ==
  LET cutoffTime == CutoffTime(t, inp)
      context == analyzeContext(RecentMemories(st, cutoffTime, inp))
      recalled == recallRelevantMemories(st, context, cutoffTime, inp.limit)
  IN [ context |-> context, recalled_memories |-> recalled,
       suggestions |-> generateContextSuggestions(context, recalled) ]

\* what recallContext returns for input inp on table st at time t
recallContext(st, t, inp) ==
  LET cutoffTime == CutoffTime(t, inp)
      context == analyzeContext(RecentMemories(st, cutoffTime, inp))
      recalled == recallRelevantMemories(st, context, cutoffTime, inp.limit)
  IN IF ~context.active
     THEN [ context |-> context, recalled_memories |-> <<>>,
            suggestions |-> <<NoActivitySuggestion>> ]
     ELSE [ context |-> context, recalled_memories |-> recalled,
            suggestions |-> generateContextSuggestions(context, recalled) ]

(***************************************************************************)
(* ContextClient (context analysis client): analyzeContext with its own    *)
(* inferFocus; the query and the tallies are those of the tool.            *)
(***************************************************************************)
ClientWindowMinutes == 30
ClientRecallLimit == 10
ClientMaxActiveFiles == 5

ClientInactiveContext ==
  [ active |-> FALSE, context_type |-> NULL, primary_project |-> NULL,
    active_projects |-> <<>>, active_entities |-> <<>>, active_files |-> <<>>,
    current_focus |-> NoFocus, recent_activity_count |-> 0,
    time_window_minutes |-> ClientWindowMinutes ]

\* ContextClient.inferFocus: the top file is looked at before the top entity
ClientInferFocus(recentMemories, files, entityNames) ==
  LET sortedFiles == ByCountDesc(files)
      sortedEntities == ByCountDesc(entityNames)
  IN IF Len(recentMemories) = 0 THEN NoFocus
     ELSE IF Len(sortedFiles) > 0 /\ Count(files, sortedFiles[1]) >= FocusThreshold
       THEN [kind |-> "file", value |-> sortedFiles[1]]
     ELSE IF Len(sortedEntities) > 0 /\ Count(entityNames, sortedEntities[1]) >= FocusThreshold
       THEN [kind |-> "entity", value |-> sortedEntities[1]]
     ELSE NoFocus

\* the hints of a ContextClient.analyzeContext call as a query input
ClientInput(projectHint, fileHint) ==
  [project |-> projectHint, file_path |-> fileHint,
   recent_minutes |-> ClientWindowMinutes, limit |-> ClientRecallLimit]

ClientAnalyzeContext(st, t, projectHint, fileHint) ==
  LET inp == ClientInput(projectHint, fileHint)
      recentMemories == RecentMemories(st, CutoffTime(t, inp), inp)
      hasProject(m) == Truthy(m.project)
      projectOf(m) == m.project
      hasType(m) == Truthy(m.type)
      typeOf(m) == m.type
      hasPath(m) == Truthy(m.file_path)
      pathOf(m) == m.file_path
      entitiesOf(m) == IF EntitiesTruthy(m.entities) THEN ParsedEntities(m.entities) ELSE <<>>
      projects == Map(Filter(recentMemories, hasProject), projectOf)
      types == Map(Filter(recentMemories, hasType), typeOf)
      files == Map(Filter(recentMemories, hasPath), pathOf)
      entityNames == Flatten(Map(recentMemories, entitiesOf))
      sortedProjects == ByCountDesc(projects)
  IN IF Len(recentMemories) = 0 THEN ClientInactiveContext
     ELSE [ active |-> TRUE,
            context_type |-> inferContextType(types, recentMemories),
            primary_project |-> IF Len(sortedProjects) > 0 THEN sortedProjects[1] ELSE NULL,
            active_projects |-> JsSlice0(sortedProjects, MaxActiveProjects),
            active_entities |-> JsSlice0(ByCountDesc(entityNames), MaxActiveEntities),
            active_files |-> JsSlice0(ByCountDesc(files), ClientMaxActiveFiles),
            current_focus |-> ClientInferFocus(recentMemories, files, entityNames),
            recent_activity_count |-> Len(recentMemories),
            time_window_minutes |-> ClientWindowMinutes ]

(***************************************************************************)
(* memory_suggestions (getSuggestions and its scans): forgotten knowledge, *)
(* potential issues and past insights.  Texts with a number in them are    *)
(* records of the fixed wording and the numbers.                           *)
(***************************************************************************)
ForgottenImportance == 600
ForgottenDays == 14
NeverAccessedDays == 999
ForgottenLimit == 10
PreviewChars == 200
TodoLimit == 10
IssueChars == 100
ErrorDays == 7
ErrorGroupLimit == 5
HighSeverityCount == 3
IssueLimit == 5
PracticeImportance == 700
PracticeLimit == 10
PerSourceSuggestions == 2
ForgottenPriority == 7
IssuePriority == 9
PracticePriority == 5
PatternPriority == 8

Text(text, x, n) == [text |-> text, x |-> x, n |-> n]

\* [AND project = ?], added when the project argument is truthy
ProjectWhere(r, project) == Truthy(project) => r.project = project

\* the WHERE of the forgotten-knowledge query with last_accessed <= ?
ForgottenWhereEdgeIn(r, fourteenDaysAgo, project) ==
  /\ r.importance_score # NULLNUM
  /\ r.importance_score >= ForgottenImportance
  /\ (r.last_accessed = NULLNUM \/ r.last_accessed <= fourteenDaysAgo)
  /\ ~r.archived
  /\ ProjectWhere(r, project)

\* WHERE importance_score >= 0.6 AND (last_accessed < ? OR last_accessed IS
\* NULL) AND archived = 0
ForgottenWhere(r, fourteenDaysAgo, project) ==
  /\ r.importance_score # NULLNUM
  /\ r.importance_score >= ForgottenImportance
  /\ (r.last_accessed = NULLNUM \/ r.last_accessed < fourteenDaysAgo)
  /\ ~r.archived
  /\ ProjectWhere(r, project)

\* m.last_accessed ? Math.floor((Date.now() - m.last_accessed) / day) : 999
DaysSince(t, la) ==
  IF la = NULLNUM \/ la = 0 THEN NeverAccessedDays ELSE (t - la) \div DayMs

\* importance_score.toFixed(2), in hundredths
ToFixed2(x) == (x + 5) \div 10

getForgottenKnowledge(st, t, project) ==
  LET fourteenDaysAgo == t - ForgottenDays * DayMs
      keep(r) == ForgottenWhere(r, fourteenDaysAgo, project)
      more(a, b) == a.importance_score > b.importance_score
      memories == SqlLimit(StableSort(Filter(Rows(st), keep), more), ForgottenLimit)
      item(m) ==
        [ memory_id |-> m.id,
          content_preview |-> StrSlice0(m.content, PreviewChars),
          project |-> m.project,
          importance_score |-> m.importance_score,
          days_since_access |-> DaysSince(t, m.last_accessed),
          reason |-> Text("Important memory (x) not accessed in n days",
                          ToFixed2(m.importance_score), DaysSince(t, m.last_accessed)) ]
  IN Map(memories, item)

\* content.split('\n')
RECURSIVE SplitLines(_)
SplitLines(c) ==
  IF \A i \in 1..Len(c) : c[i] # "\n" THEN <<c>>
  ELSE LET k == CHOOSE i \in 1..Len(c) : c[i] = "\n" /\ \A j \in 1..(i - 1) : c[j] # "\n"
       IN <<SubSeq(c, 1, k - 1)>> \o SplitLines(SubSeq(c, k + 1, Len(c)))

TodoWords == {"todo", "fixme", "hack"}

HasTodo(c) == \E w \in TodoWords : TextIncludes(c, w)

\* WHERE (content LIKE '%TODO%' OR ... '%FIXME%' OR ... '%HACK%') AND archived = 0
TodoWhere(r, project) ==
  /\ HasTodo(r.content)
  /\ ~r.archived
  /\ ProjectWhere(r, project)

\* one issue for the first line of the row that names a marker
TodoIssue(todo) ==
  LET lines == SplitLines(todo.content)
      hits == {i \in 1..Len(lines) : HasTodo(lines[i])}
  IN IF hits = {} THEN <<>>
     ELSE LET first == CHOOSE i \in hits : \A j \in hits : i <= j
          IN << [ type |-> "unresolved_todo",
                  title |-> Text("Unresolved TODO", 0, 0),
                  description |-> StrSlice0(lines[first], IssueChars),
                  severity |-> "medium",
                  memory_id |-> todo.id ] >>

\* the WHERE of the repeated-error query without its archived = 0
ErrorWhereAnyArchived(r, weekAgo, project) ==
  /\ (TextIncludes(r.content, "error") \/ TextIncludes(r.content, "exception"))
  /\ r.timestamp > weekAgo
  /\ ProjectWhere(r, project)

\* WHERE (content LIKE '%error%' OR ... '%Error%' OR ... '%exception%')
\* AND timestamp > ? AND archived = 0
ErrorWhere(r, weekAgo, project) ==
  /\ (TextIncludes(r.content, "error") \/ TextIncludes(r.content, "exception"))
  /\ r.timestamp > weekAgo
  /\ ~r.archived
  /\ ProjectWhere(r, project)

\* GROUP BY content_hash HAVING count > 1 LIMIT 5: one entry for each hash
\* that occurs more than once, with the content of a row of the group (rows
\* of one hash hold the same content)
ErrorGroups(rows) ==
  LET hashOf(r) == r.content_hash
      hashes == Map(rows, hashOf)
      repeated(h) == Count(hashes, h) > 1
      group(h) ==
        [ content |-> rows[CHOOSE i \in 1..Len(rows) : rows[i].content_hash = h
                             /\ \A j \in 1..(i - 1) : rows[j].content_hash # h].content,
          count |-> Count(hashes, h) ]
  IN SqlLimit(Map(Filter(FirstSeen(hashes), repeated), group), ErrorGroupLimit)

ErrorIssue(error) ==
  [ type |-> "repeated_error",
    title |-> Text("Repeated error (n times)", 0, error.count),
    description |-> StrSlice0(error.content, IssueChars) \o <<"...">>,
    severity |-> IF error.count >= HighSeverityCount THEN "high" ELSE "medium",
    memory_id |-> 0 ]

detectPotentialIssues(st, t, project) ==
  LET isTodo(r) == TodoWhere(r, project)
      todos == SqlLimit(NewestFirst(Filter(Rows(st), isTodo)), TodoLimit)
      weekAgo == t - ErrorDays * DayMs
      isError(r) == ErrorWhere(r, weekAgo, project)
      errors == ErrorGroups(Filter(Rows(st), isError))
      issues == Flatten(Map(todos, TodoIssue)) \o Map(errors, ErrorIssue)
  IN JsSlice0(issues, IssueLimit)

\* WHERE type IN ('decision', 'insight', 'note') AND importance_score >= 0.7
\* AND archived = 0
PracticeWhere(r, project) ==
  /\ r.type \in {"decision", "insight", "note"}
  /\ r.importance_score # NULLNUM
  /\ r.importance_score >= PracticeImportance
  /\ ~r.archived
  /\ ProjectWhere(r, project)

\* ORDER BY importance_score DESC, timestamp DESC LIMIT 10
getBestPractices(st, project) ==
  LET keep(r) == PracticeWhere(r, project)
      before(a, b) ==
        \/ a.importance_score > b.importance_score
        \/ a.importance_score = b.importance_score /\ a.timestamp > b.timestamp
  IN SqlLimit(StableSort(Filter(Rows(st), keep), before), PracticeLimit)

generateSummary(suggestions, issues, forgotten) ==
  LET isHigh(i) == i.severity = "high"
      highSeverityIssues == Len(Filter(issues, isHigh))
      parts ==
        (IF Len(suggestions) > 0
         THEN <<Text("n suggestions available", 0, Len(suggestions))>> ELSE <<>>)
        \o (IF highSeverityIssues > 0
            THEN <<Text("n high-priority issues detected", 0, highSeverityIssues)>> ELSE <<>>)
        \o (IF Len(forgotten) > 0
            THEN <<Text("n important memories need review", 0, Len(forgotten))>> ELSE <<>>)
  IN IF Len(parts) > 0 THEN parts ELSE <<Text("No suggestions at this time.", 0, 0)>>

getSuggestions(st, t, inp) ==
  LET forgotten == getForgottenKnowledge(st, t, inp.project)
      fromForgotten(item) ==
        [ type |-> "forgotten_knowledge",
          title |-> Text("Review forgotten important memory", 0, 0),
          description |-> item.content_preview, priority |-> ForgottenPriority,
          action |-> "review", memory_id |-> item.memory_id, reason |-> item.reason ]
      issues == detectPotentialIssues(st, t, inp.project)
      isHigh(i) == i.severity = "high"
      fromIssue(issue) ==
        [ type |-> "issue_suggestion", title |-> issue.title,
          description |-> issue.description, priority |-> IssuePriority,
          action |-> "investigate", memory_id |-> issue.memory_id,
          reason |-> Text("Potential issue detected", 0, 0) ]
      practices == getBestPractices(st, inp.project)
      fromPractice(practice) ==
        [ type |-> "best_practice", title |-> Text("Relevant past insight", 0, 0),
          description |-> practice.content, priority |-> PracticePriority,
          action |-> "review", memory_id |-> practice.id,
          reason |-> Text("Historical pattern", 0, 0) ]
      pattern ==
        [ type |-> "pattern_suggestion", title |-> Text("Check error patterns", 0, 0),
          description |-> <<"You appear to be debugging. Consider checking past error resolutions.">>,
          priority |-> PatternPriority, action |-> "search_errors", memory_id |-> 0,
          reason |-> Text("Debugging context detected", 0, 0) ]
      higher(a, b) == a.priority > b.priority
      suggestions ==
        StableSort(
          Map(JsSlice0(forgotten, PerSourceSuggestions), fromForgotten)
          \o Map(JsSlice0(Filter(issues, isHigh), PerSourceSuggestions), fromIssue)
          \o Map(JsSlice0(practices, PerSourceSuggestions), fromPractice)
          \o (IF inp.context_type = "debugging" THEN <<pattern>> ELSE <<>>),
          higher)
  IN [ suggestions |-> JsSlice0(suggestions, inp.limit),
       potential_issues |-> issues,
       forgotten_knowledge |-> forgotten,
       summary |-> generateSummary(suggestions, issues, forgotten) ]

\* the sub-scans of getSuggestions, each one query on the store (two of them
\* inside detectPotentialIssues)
Scans == {"forgotten", "todos", "errors", "practices"}

\* the catch of the tool call handler: what a thrown error becomes
ErrorResponse(tool) == [isError |-> TRUE, error |-> "query failed", tool |-> tool]

\* the response to a memory_suggestions call during which the query of the
\* scan failing throws ("none": no query throws).  All scans are awaited
\* inside the one try of getSuggestions, whose catch logs and rethrows
SuggestionsResponse(st, t, inp, failing) ==
  IF failing \in Scans THEN ErrorResponse("memory_suggestions")
  ELSE [isError |-> FALSE, result |-> getSuggestions(st, t, inp)]

(***************************************************************************)
(* The state machine.  store is the memories table in rowid order, now is  *)
(* Date.now(), last is the most recent tool call with what it returned,    *)
(* searched is the history of what the searches returned and when.        *)
(***************************************************************************)
\* the largest table the initial states hold
MaxRecords == 3
\* the clock at the start: 21 days after the epoch
Now0 == 21 * DayMs

NoCall == [op |-> "none"]

\* tables of n rows, each row built from one of the profiles 0..(k - 1), the
\* profiles in rowid order non-decreasing or non-increasing
ProfileTables(n, k) ==
  {f \in [1..n -> 0..(k - 1)] :
     \/ \A i \in 1..(n - 1) : f[i] <= f[i + 1]
     \/ \A i \in 1..(n - 1) : f[i] >= f[i + 1]}

\* the input of a memory_recall_context call
RecallInput(project, file_path, recent_minutes, limit) ==
  [project |-> project, file_path |-> file_path,
   recent_minutes |-> recent_minutes, limit |-> limit]

\* the tool call: recall reads the table and writes nothing
RecallContext(inp) ==
  /\ last' = [op |-> "recall", input |-> inp, at |-> now,
              out |-> recallContext(store, now, inp)]
  /\ UNCHANGED <<store, now, vectors, statistics, inflight, searched>>

\* a ContextClient.analyzeContext call: reads the table and writes nothing
AnalyzeContext(projectHint, fileHint) ==
  /\ last' = [op |-> "analyze", input |-> ClientInput(projectHint, fileHint), at |-> now,
              out |-> [context |-> ClientAnalyzeContext(store, now, projectHint, fileHint)]]
  /\ UNCHANGED <<store, now, vectors, statistics, inflight, searched>>

\* the input of a memory_suggestions call
SuggestionsInput(project, context_type, limit) ==
  [project |-> project, context_type |-> context_type, limit |-> limit]

\* a memory_suggestions call that marks the rows it lists as forgotten as
\* accessed
GetSuggestionsTouching(inp) ==
  LET out == getSuggestions(store, now, inp)
      listed == {out.forgotten_knowledge[x].memory_id : x \in 1..Len(out.forgotten_knowledge)}
  IN /\ last' = [op |-> "suggest", input |-> inp, at |-> now, out |-> out]
     /\ store' = [i \in 1..Len(store) |->
                    IF i \in listed THEN [store[i] EXCEPT !.last_accessed = now] ELSE store[i]]
     /\ UNCHANGED <<now, vectors, statistics, inflight, searched>>

\* the tool call: the suggestion scans read the table and write nothing
GetSuggestions(inp) ==
  /\ last' = [op |-> "suggest", input |-> inp, at |-> now,
              out |-> getSuggestions(store, now, inp)]
  /\ UNCHANGED <<store, now, vectors, statistics, inflight, searched>>

\* the caller repeats its last call, with the clock and the table as they
\* are; the result of the call before is kept next to the new one
CallAgain ==
  /\ last.op \in {"recall", "analyze", "suggest"}
  /\ "prev" \notin DOMAIN last
  /\ last' = [op |-> last.op, input |-> last.input, at |-> now, prev |-> last.out,
              out |-> CASE last.op = "recall" -> recallContext(store, now, last.input)
                        [] last.op = "analyze" ->
                             [context |-> ClientAnalyzeContext(store, now, last.input.project,
                                                               last.input.file_path)]
                        [] last.op = "suggest" -> getSuggestions(store, now, last.input)]
  /\ UNCHANGED <<store, now, vectors, statistics, inflight, searched>>

\* the memory_suggestions tool call on a store where the query of one scan
\* fails, or none does
SuggestWithFailingScan(inp, failing) ==
  /\ last' = [op |-> "suggest_call", input |-> inp, at |-> now, failing |-> failing,
              out |-> SuggestionsResponse(store, now, inp, failing)]
  /\ UNCHANGED <<store, now, vectors, statistics, inflight, searched>>

(***************************************************************************)
(* Spec: recall over tables whose rows differ in age (inside the 30 minute *)
(* window, exactly on its edge, older), project, entities and stored       *)
(* ranking signals.                                                        *)
(***************************************************************************)
RecallProfiles == 3 * 2 * 2 * 2

RecallRow(id, p) ==
  LET age == p % 3
      proj == (p \div 3) % 2
      ents == (p \div 6) % 2
      rank == (p \div 12) % 2
  IN Row(id,
         CASE age = 0 -> Now0 - 5 * MinuteMs + id
           [] age = 1 -> Now0 - 30 * MinuteMs
           [] OTHER -> Now0 - 90 * MinuteMs + id,
         FALSE,
         IF proj = 0 THEN NULL ELSE "A",
         NULL, "note", <<"note">>, "h",
         IF ents = 0 THEN NoEntities ELSE JsonEntities(<<"fetch">>),
         IF rank = 0 THEN 250 ELSE 900,
         IF rank = 0 THEN 0 ELSE 12,
         NULLNUM)

\* the table of n rows with profiles f
RecallTable(n, f) == [i \in 1..n |-> RecallRow(i, f[i])]

\* limit is z.number(): the schema accepts any number, negative ones too
RecallInputs == { RecallInput(NULL, NULL, 30, limit) : limit \in {-1, 0, 1, 2} }

Init ==
  /\ \E n \in 0..MaxRecords : \E f \in ProfileTables(n, RecallProfiles) :
       store = RecallTable(n, f)
  /\ now = Now0
  /\ last = NoCall
  /\ vectors = VectorsOf(store)
  /\ statistics = StatisticsOf(store)
  /\ inflight = {}
  /\ searched = {}

Next == \E inp \in RecallInputs : RecallContext(inp)

Spec == Init /\ [][Next]_vars

(***************************************************************************)
(* Properties of recall (checked under Spec)                               *)
(***************************************************************************)
\* the last call was a recall
Recalled == last.op = "recall"
LastCutoff == CutoffTime(last.at, last.input)
LastRecalled == last.out.recalled_memories
LastContext == last.out.context
RecalledIds == {LastRecalled[i].id : i \in 1..Len(LastRecalled)}

\* C1: no recalled record has timestamp >= now - recent_minutes*60000, and no
\* record fetched to build the call's context is among the recalled ones
C1_WindowExcluded ==
  Recalled =>
    \A id \in RecalledIds :
      /\ store[id].timestamp < LastCutoff
      /\ store[id] \notin Range(RecentMemories(store, LastCutoff, last.input))

\* a recall returned something while a live row sits exactly on the window's
\* edge and another inside the window
C1_Witness ==
  /\ Recalled
  /\ Len(LastRecalled) > 0
  /\ \E i \in 1..Len(store) : store[i].timestamp = LastCutoff /\ store[i].project = "A"
  /\ LastContext.primary_project = "A"

\* C2: a recall call that returns a record adds exactly one to its
\* access_count and sets its last_accessed to the time of the call (so N such
\* calls add exactly N)
C2_RecallCountsAccess ==
  [][ (last'.op = "recall" /\ (last.op # "recall" \/ last' # last)) =>
        \A i \in 1..Len(last'.out.recalled_memories) :
          LET id == last'.out.recalled_memories[i].id
          IN /\ store'[id].access_count = store[id].access_count + 1
             /\ store'[id].last_accessed = last'.at ]_vars

\* the rows the claimed filter selects: live, older than the window, project
\* among the active ones OR entities naming one of the top five
OrCandidates(st, context, cutoff) ==
  LET terms == JsSlice0(context.active_entities, RecallEntityTerms)
  IN {i \in 1..Len(st) :
        /\ ~st[i].archived
        /\ st[i].timestamp < cutoff
        /\ \/ st[i].project \in Range(context.active_projects)
           \/ \E k \in 1..Len(terms) : EntitiesLike(st[i].entities, terms[k])}

\* C5: with active projects and active entities both present, every live
\* older row that meets the project condition or the entity condition is a
\* candidate (so all of them are returned when limit leaves room)
C5_EitherConditionSuffices ==
  ( /\ Recalled
    /\ Len(LastContext.active_projects) > 0
    /\ Len(LastContext.active_entities) > 0
    /\ last.input.limit >= Cardinality(OrCandidates(store, LastContext, LastCutoff)) )
  => RecalledIds = OrCandidates(store, LastContext, LastCutoff)

\* C6: an active context without projects and without entities recalls nothing
C6_ThinContextRecallsNothing ==
  ( /\ Recalled
    /\ LastContext.active
    /\ LastContext.active_projects = <<>>
    /\ LastContext.active_entities = <<>> )
  => LastRecalled = <<>>

\* C7: at most limit entries (none for a limit below 1), in non-increasing
\* order of relevance_score, and no scored candidate left out outranks a
\* returned one
C7_TopLimit ==
  Recalled =>
    LET scored == Scored(store, LastContext, LastCutoff, last.input.limit)
    IN /\ Len(LastRecalled) <= Max(last.input.limit, 0)
       /\ \A i \in 1..(Len(LastRecalled) - 1) :
            LastRecalled[i].relevance_score >= LastRecalled[i + 1].relevance_score
       /\ \A k \in 1..Len(scored) : \A i \in 1..Len(LastRecalled) :
            scored[k].id \notin RecalledIds =>
              scored[k].relevance_score <= LastRecalled[i].relevance_score

(***************************************************************************)
(* SpecScore: the relevance scorer as a function.  Row 1 is the memory to  *)
(* score, the rows after it are the recent activity the context is built   *)
(* from.                                                                   *)
(***************************************************************************)
\* the most rows of recent activity behind a scored context
MaxScoreRecents == 2

ScoreRecentProfiles == 3 * 2

ScoreRecentRow(id, p) ==
  LET proj == p % 3
      ents == (p \div 3) % 2
  IN Row(id, Now0 - 5 * MinuteMs + id, FALSE,
         CASE proj = 0 -> NULL [] proj = 1 -> "A" [] OTHER -> "B",
         NULL, "note", <<"note">>, "h",
         IF ents = 0 THEN NoEntities
         ELSE JsonEntities(<<"fetch", "parse", "render", "save">>),
         500, 0, NULLNUM)

ScoredRows ==
  { Row(1, Now0 - 90 * MinuteMs, FALSE, project, NULL, "note", <<"note">>, "h", entities,
        imp, acc, NULLNUM) :
      project \in {NULL, "A", "B", "C"},
      entities \in { NoEntities, BadEntities(<<"fetch">>), JsonEntities(<<"fetch">>),
                     JsonEntities(<<"save", "render", "parse", "fetch">>) },
      imp \in {NULLNUM, 0, 625, 1000},
      acc \in {0, 3, 25} }

\* the memory m followed by n rows of recent activity with profiles f
ScoreTable(m, n, f) == <<m>> \o [i \in 1..n |-> ScoreRecentRow(i + 1, f[i])]

\* the context of the default call (30 minutes, no hints)
DefaultWindow == 30
ScoreContext(st, t) ==
  analyzeContext(RecentMemories(st, t - DefaultWindow * MinuteMs,
                                RecallInput(NULL, NULL, DefaultWindow, 10)))

\* one application of the scorer, as in the map over the candidate rows
ScoreMemory ==
  /\ last.op = "none"
  /\ LET context == ScoreContext(store, now)
     IN last' = [op |-> "score", memory |-> store[1], context |-> context,
                 relevance_score |-> calculateRelevance(store[1], context),
                 recall_reason |-> getRecallReason(store[1], context)]
  /\ UNCHANGED <<store, now, vectors, statistics, inflight, searched>>

InitScore ==
  /\ \E m \in ScoredRows : \E n \in 1..MaxScoreRecents :
       \E f \in [1..n -> 0..(ScoreRecentProfiles - 1)] : store = ScoreTable(m, n, f)
  /\ now = Now0
  /\ last = NoCall
  /\ vectors = VectorsOf(store)
  /\ statistics = StatisticsOf(store)
  /\ inflight = {}
  /\ searched = {}

NextScore == ScoreMemory

SpecScore == InitScore /\ [][NextScore]_vars

\* C3: with importance_score in [0,1] or unset and access_count >= 0, the
\* relevance score lies between 0 and 1.0
C3_ScoreBounds ==
  last.op = "score" => (0 <= last.relevance_score /\ last.relevance_score <= 1000)

\* a memory that takes every component at its cap has been scored
C3_Witness ==
  /\ last.op = "score"
  /\ last.memory.project = last.context.primary_project
  /\ Len(EntityOverlap(last.memory, last.context)) = 4
  /\ last.memory.importance_score = 1000
  /\ last.memory.access_count = 25
  /\ last.relevance_score = 950

\* the components as the scoring rule states them
ClaimedProject(m, ctx) ==
  IF m.project = ctx.primary_project THEN 3500
  ELSE IF m.project \in Range(ctx.active_projects) THEN 2000
  ELSE 0
ClaimedEntities(m, ctx) ==
  Min(3000, 1000 * Cardinality(Range(ctx.active_entities) \cap Range(ParsedEntities(m.entities))))
ClaimedImportance(m) ==
  2 * (IF m.importance_score = NULLNUM THEN 500 ELSE m.importance_score)
ClaimedAccess(m) == IF m.access_count >= 10 THEN 1000 ELSE 100 * m.access_count

\* C4: the score is P + E + I + A rounded to three decimals, where I is
\* 0.20 * importance_score for every stored importance (0 included) and uses
\* 0.5 only when importance_score is unset
C4_ScoreFormula ==
  last.op = "score" =>
    last.relevance_score =
      Round3(ClaimedProject(last.memory, last.context)
             + ClaimedEntities(last.memory, last.context)
             + ClaimedImportance(last.memory) + ClaimedAccess(last.memory))

(***************************************************************************)
(* SpecContext: the context analyzer.  Small tables vary project (four     *)
(* different ones), file, entities, archiving and age against the hints of *)
(* the call; long tables hold more rows inside the window than the recent- *)
(* activity query fetches.                                                 *)
(***************************************************************************)
\* the largest small table
MaxContextRecords == 4
\* how many rows a long table holds beyond the fetch limit
MaxOverflow == 2

EntityNames ==
  << "fetch", "parse", "render", "save", "load", "init",
     "open", "close", "read", "write", "send", "recv" >>

ContextProfiles == 5 * 2 + 2

\* profiles 0..9: live rows inside the window, project NULL, A, B, C or D,
\* plain or with a file and entities; 10: an archived row inside the window;
\* 11: a live row older than the window
ContextRow(id, p) ==
  LET proj == p % 5
      rich == p >= 5
      projects == <<NULL, "A", "B", "C", "D">>
  IN IF p < 10
     THEN Row(id, Now0 - 5 * MinuteMs + id, FALSE, projects[proj + 1],
              IF rich THEN "src/auth.ts" ELSE NULL, IF rich THEN "code" ELSE "note",
              <<"note">>, "h",
              IF rich THEN JsonEntities(<<"fetch", EntityNames[proj + 2]>>) ELSE NoEntities,
              500, 0, NULLNUM)
     ELSE IF p = 10
     THEN Row(id, Now0 - 5 * MinuteMs + id, TRUE, "A", "src/auth.ts", "code",
              <<"note">>, "h", JsonEntities(<<"fetch">>), 500, 0, NULLNUM)
     ELSE Row(id, Now0 - 90 * MinuteMs + id, FALSE, "A", "src/auth.ts", "code",
              <<"note">>, "h", JsonEntities(<<"fetch">>), 500, 0, NULLNUM)

ContextTable(n, f) == [i \in 1..n |-> ContextRow(i, f[i])]

\* a long table: n live rows inside the window, row 1 the newest, the k
\* newest of project first and the others of project rest, each naming one
\* entity in rotation
LongTable(n, k, first, rest) ==
  [i \in 1..n |->
     Row(i, Now0 - 5 * MinuteMs - i, FALSE, IF i <= k THEN first ELSE rest,
         NULL, "note", <<"note">>, "h",
         JsonEntities(<<EntityNames[(i % Len(EntityNames)) + 1]>>), 500, 0, NULLNUM)]

ContextInputs ==
  { RecallInput(project, file_path, 30, 2) :
      project \in {NULL, "A"}, file_path \in {NULL, "auth"} }

InitContext ==
  /\ \/ \E n \in 0..MaxContextRecords : \E f \in ProfileTables(n, ContextProfiles) :
          store = ContextTable(n, f)
     \/ \E k \in 0..(RecentLimit + MaxOverflow) : \E order \in {0, 1} :
          store = LongTable(RecentLimit + MaxOverflow, k,
                            IF order = 0 THEN "A" ELSE "B", IF order = 0 THEN "B" ELSE "A")
  /\ now = Now0
  /\ last = NoCall
  /\ vectors = VectorsOf(store)
  /\ statistics = StatisticsOf(store)
  /\ inflight = {}
  /\ searched = {}

NextContext == \E inp \in ContextInputs : RecallContext(inp)

SpecContext == InitContext /\ [][NextContext]_vars

(***************************************************************************)
(* SpecArchive: tables with archived rows next to live ones, read by both  *)
(* tools.  Rows of one content share its hash, as handleStoreMemory        *)
(* derives the hash from the content; the schema puts no uniqueness on     *)
(* content_hash, and rows are also inserted into the table directly.       *)
(***************************************************************************)
\* the largest table of SpecArchive
MaxArchiveRecords == 3

ArchiveProfiles == 2 * 2 * 2 * 2

\* archived or live; inside the window or older; an error report or a note
\* with a TODO line; important and never accessed (project A) or less
\* important and accessed 20 days ago (project B)
ArchiveRow(id, p) ==
  LET archived == p % 2 = 1
      recent == (p \div 2) % 2 = 0
      isError == (p \div 4) % 2 = 0
      high == (p \div 8) % 2 = 0
  IN Row(id,
         IF recent THEN Now0 - 5 * MinuteMs + id ELSE Now0 - 90 * MinuteMs + id,
         archived,
         IF high THEN "A" ELSE "B",
         NULL, "note",
         IF isError THEN <<"Error", "in", "parser">>
                    ELSE <<"setup", "\n", "TODO", "cleanup">>,
         IF isError THEN "hash-error" ELSE "hash-todo",
         JsonEntities(<<"fetch">>),
         IF high THEN 900 ELSE 650,
         0,
         IF high THEN NULLNUM ELSE Now0 - 20 * DayMs)

ArchiveTable(n, f) == [i \in 1..n |-> ArchiveRow(i, f[i])]

ArchiveRecallInputs == { RecallInput(NULL, NULL, 30, 2) }

ArchiveSuggestionInputs ==
  { SuggestionsInput(NULL, NULL, 5), SuggestionsInput("A", "debugging", 5),
    SuggestionsInput(NULL, "debugging", 1) }

InitArchive ==
  /\ \E n \in 0..MaxArchiveRecords : \E f \in ProfileTables(n, ArchiveProfiles) :
       store = ArchiveTable(n, f)
  /\ now = Now0
  /\ last = NoCall
  /\ vectors = VectorsOf(store)
  /\ statistics = StatisticsOf(store)
  /\ inflight = {}
  /\ searched = {}

NextArchive ==
  \/ \E inp \in ArchiveRecallInputs : RecallContext(inp)
  \/ \E inp \in ArchiveSuggestionInputs : GetSuggestions(inp)

SpecArchive == InitArchive /\ [][NextArchive]_vars

Suggested == last.op = "suggest"

\* the table without its archived rows
LiveRows(st) ==
  LET live(r) == ~r.archived
  IN SelectSeq(st, live)

\* the ids a result of memory_suggestions names
SuggestedIds ==
  LET out == last.out
  IN ({out.suggestions[i].memory_id : i \in 1..Len(out.suggestions)}
      \cup {out.potential_issues[i].memory_id : i \in 1..Len(out.potential_issues)}
      \cup {out.forgotten_knowledge[i].memory_id : i \in 1..Len(out.forgotten_knowledge)})
     \ {0}

\* C8: an archived record never contributes to what a call returns: every
\* result (context snapshot, recalled memories, suggestions, potential
\* issues with their group counts, forgotten knowledge, summary) is the
\* result the same call gives on the table without its archived rows, and no
\* result names an archived record
C8_ArchivedNeverContributes ==
  /\ Recalled =>
       /\ last.out = recallContext(LiveRows(store), last.at, last.input)
       /\ \A id \in RecalledIds : ~store[id].archived
  /\ Suggested =>
       /\ last.out = getSuggestions(LiveRows(store), last.at, last.input)
       /\ \A id \in SuggestedIds : ~store[id].archived

\* memory_suggestions reported an error repeated twice while an archived
\* row holds the same error a third time, and the table holds an archived
\* row that is important, never accessed and carries a TODO
C8_Witness ==
  /\ Suggested
  /\ \E a, b, c \in 1..Len(store) :
       /\ a < b /\ ~store[a].archived /\ ~store[b].archived /\ store[c].archived
       /\ store[a].content_hash = "hash-error"
       /\ store[b].content_hash = "hash-error"
       /\ store[c].content_hash = "hash-error"
       /\ store[c].importance_score >= ForgottenImportance
  /\ \E i \in 1..Len(last.out.potential_issues) :
       /\ last.out.potential_issues[i].type = "repeated_error"
       /\ last.out.potential_issues[i].title.n = 2
       /\ last.out.potential_issues[i].severity = "medium"

(***************************************************************************)
(* Properties of the context snapshot (SpecContext).                       *)
(***************************************************************************)
\* the live rows the hints of the last call select inside its window
InWindow ==
  {i \in 1..Len(store) :
     /\ ~store[i].archived
     /\ store[i].timestamp > LastCutoff
     /\ (Truthy(last.input.project) => store[i].project = last.input.project)
     /\ (Truthy(last.input.file_path) => PathLike(store[i].file_path, last.input.file_path))}

\* C9: when no live record matching the hints lies inside the window, recall
\* returns the inactive snapshot (active false, labels null, lists empty,
\* count 0), no recalled memories and the one fixed suggestion
C9_InactiveOnEmptyWindow ==
  (Recalled /\ InWindow = {}) =>
    /\ LastContext.active = FALSE
    /\ LastContext.context_type = NULL
    /\ LastContext.primary_project = NULL
    /\ LastContext.active_projects = <<>>
    /\ LastContext.active_entities = <<>>
    /\ LastContext.current_focus = NoFocus
    /\ LastContext.recent_activity_count = 0
    /\ LastRecalled = <<>>
    /\ Len(last.out.suggestions) = 1
    /\ last.out.suggestions[1].text =
         "No recent activity detected. Start working to build context."

\* a recall with a project hint found nothing in the window although the
\* table holds a live row inside it (of another project) and an older live
\* row of the hinted project
C9_Witness ==
  /\ Recalled
  /\ InWindow = {}
  /\ last.input.project = "A"
  /\ \E i, j \in 1..Len(store) :
       /\ ~store[i].archived /\ store[i].timestamp > LastCutoff /\ store[i].project = "B"
       /\ ~store[j].archived /\ store[j].timestamp < LastCutoff /\ store[j].project = "A"
  /\ LastContext.active = FALSE

\* row i sorts before row j in the recent-activity query
NewerRow(i, j) ==
  \/ store[i].timestamp > store[j].timestamp
  \/ store[i].timestamp = store[j].timestamp /\ i < j

\* the rows of the window the recent-activity query fetched: the newest 50
Considered == {i \in InWindow : Cardinality({j \in InWindow : NewerRow(j, i)}) < RecentLimit}

\* in how many rows of S project p occurs
ProjectFrequency(S, p) == Cardinality({i \in S : store[i].project = p})

\* how often the rows of S list entity e
EntityFrequency(S, e) ==
  Cardinality(UNION { {<<i, k>> : k \in {k \in 1..Len(ParsedEntities(store[i].entities)) :
                                          ParsedEntities(store[i].entities)[k] = e}} : i \in S })

\* the snapshot of the last call is well-formed, frequencies counted over
\* the rows S
WellFormedOver(S) ==
  LET c == LastContext
      P == c.active_projects
      E == c.active_entities
  IN /\ c.active <=> c.recent_activity_count > 0
     /\ c.recent_activity_count > 0 <=> InWindow # {}
     /\ c.recent_activity_count <= 50
     /\ Len(P) <= 3
     /\ Len(E) <= 10
     /\ \A i, j \in 1..Len(P) : i < j => ProjectFrequency(S, P[i]) >= ProjectFrequency(S, P[j])
     /\ \A i, j \in 1..Len(E) : i < j => EntityFrequency(S, E[i]) >= EntityFrequency(S, E[j])
     /\ c.primary_project = NULL <=> P = <<>>
     /\ P # <<>> =>
          /\ c.primary_project = P[1]
          /\ \A i \in S : store[i].project # NULL =>
               ProjectFrequency(S, store[i].project) <= ProjectFrequency(S, P[1])

\* C10 as stated: every snapshot is well-formed with frequencies counted
\* over all live rows matching the hints inside the window
C10_WellFormedInWindow == Recalled => WellFormedOver(InWindow)

\* C10: every snapshot is well-formed with frequencies counted over the
\* rows the analyzer was given, the at most 50 newest live rows matching the
\* hints inside the window
C10_WellFormedOverFetched == Recalled => WellFormedOver(Considered)

\* a snapshot built from a window of more than 50 rows: 50 counted, ten of
\* twelve entities and both projects kept
C10_Witness ==
  /\ Recalled
  /\ Cardinality(InWindow) > RecentLimit
  /\ LastContext.recent_activity_count = RecentLimit
  /\ Len(LastContext.active_entities) = MaxActiveEntities
  /\ Len(LastContext.active_projects) = 2
  /\ LastContext.primary_project = LastContext.active_projects[1]

(***************************************************************************)
(* SpecInfer: what the analyzers infer from the window.  Keyword tables    *)
(* hold up to eleven rows inside the window, one of them with a content to *)
(* scan, the row types all alike or split in two.                          *)
(***************************************************************************)
\* the largest keyword table
MaxInferRecords == 11

\* the contents of the one row that differs: no keyword, a keyword, a
\* keyword inside a word, a keyword ending at character 199, one cut by
\* character 200, one behind character 200
InferContents ==
  << <<"note">>, <<"Error">>, <<"prefix">>, <<"<pad195>", "fix">>,
     <<"<pad195>", "error">>, <<"<pad295>", "traceback">> >>

InferTypes ==
  <<"code", "command", "conversation", "note", "decision", "insight", "event", NULL>>

\* n live rows inside the window, row 1 the newest; row k holds content c;
\* the first split rows are of type first, the others are code
InferTable(n, k, c, first, split) ==
  [i \in 1..n |->
     Row(i, Now0 - 5 * MinuteMs - i, FALSE, NULL, NULL,
         IF i <= split THEN first ELSE "code",
         IF i = k THEN c ELSE <<"note">>, "h", NoEntities, 500, 0, NULLNUM)]

\* the largest focus table
MaxFocusRecords == 4

FocusProfiles == 2 * 2

\* a live row inside the window, with or without the entity fetch, with or
\* without the file src/auth.ts
FocusRow(id, p) ==
  Row(id, Now0 - 5 * MinuteMs + id, FALSE, NULL,
      IF p \div 2 = 1 THEN "src/auth.ts" ELSE NULL, "note", <<"note">>, "h",
      IF p % 2 = 1 THEN JsonEntities(<<"fetch">>) ELSE NoEntities, 500, 0, NULLNUM)

FocusTable(n, f) == [i \in 1..n |-> FocusRow(i, f[i])]

InitInfer ==
  /\ \/ \E n \in 1..MaxInferRecords : \E k \in 1..n : \E c \in 1..Len(InferContents) :
          \E t \in 1..Len(InferTypes) : \E split \in {1, n} :
            store = InferTable(n, k, InferContents[c], InferTypes[t], split)
     \/ \E n \in 0..MaxFocusRecords : \E f \in ProfileTables(n, FocusProfiles) :
          store = FocusTable(n, f)
  /\ now = Now0
  /\ last = NoCall
  /\ vectors = VectorsOf(store)
  /\ statistics = StatisticsOf(store)
  /\ inflight = {}
  /\ searched = {}

NextInfer ==
  \/ RecallContext(RecallInput(NULL, NULL, 30, 2))
  \/ AnalyzeContext(NULL, NULL)

SpecInfer == InitInfer /\ [][NextInfer]_vars

\* the last call built a context snapshot
Analyzed == last.op \in {"recall", "analyze"}

\* the k newest rows of the window
Newest(k) == {i \in InWindow : Cardinality({j \in InWindow : NewerRow(j, i)}) < k}

\* a keyword occurs, in any case, within the first 200 characters of c
KeywordInHead(c) ==
  \E p \in 1..Len(c) : \E kw \in {"error", "exception", "traceback", "failed", "bug", "fix"} :
    SubstringOf(kw, ToLower(c[p])) /\ EndOf(c, p) <= 200

\* in how many rows of S type t occurs
TypeFrequency(S, t) == Cardinality({i \in S : store[i].type = t})

\* the fixed table of the claim
ClaimedTypeImage(t) ==
  CASE t = "code" -> "coding"
    [] t = "command" -> "system_admin"
    [] t = "conversation" -> "planning"
    [] t = "note" -> "documentation"
    [] t = "decision" -> "planning"
    [] t = "insight" -> "analysis"
    [] OTHER -> "general"

\* C11: in an active snapshot context_type is debugging iff a keyword occurs
\* within the first 200 characters of one of the 10 newest rows of the
\* window; otherwise it is the table image of a most frequent type, general
\* when that type is unmapped or no row has a type
C11_ContextType ==
  (Analyzed /\ LastContext.active) =>
    LET hit == \E i \in Newest(10) : KeywordInHead(store[i].content)
        typed == {i \in Considered : store[i].type # NULL}
    IN /\ LastContext.context_type = "debugging" <=> hit
       /\ ~hit =>
            IF typed = {} THEN LastContext.context_type = "general"
            ELSE \E i \in typed :
                   /\ \A j \in typed : TypeFrequency(Considered, store[j].type)
                                         <= TypeFrequency(Considered, store[i].type)
                   /\ LastContext.context_type = ClaimedTypeImage(store[i].type)

\* a snapshot of a window whose only keyword sits in the 11th-newest row:
\* the context type is read from the types
C11_Witness ==
  /\ Analyzed
  /\ LastContext.active
  /\ \E i \in InWindow \ Newest(10) : KeywordInHead(store[i].content)
  /\ \A i \in Newest(10) : ~KeywordInHead(store[i].content)
  /\ LastContext.context_type = "coding"

\* in how many rows of S file path f occurs
FileFrequency(S, f) == Cardinality({i \in S : store[i].file_path = f})

\* the entities and the files the rows of S name
EntitiesIn(S) == UNION {Range(ParsedEntities(store[i].entities)) : i \in S}
FilesIn(S) == {store[i].file_path : i \in S} \ {NULL}

\* C12: in every snapshot, of the tool and of ContextClient, current_focus
\* is the top entity whenever an entity occurs 3 times in the window, file
\* counts notwithstanding; the top file only when no entity reaches 3 and a
\* file does; null otherwise
C12_EntityFocusFirst ==
  Analyzed =>
    LET S == Considered
        focus == LastContext.current_focus
    IN IF \E e \in EntitiesIn(S) : EntityFrequency(S, e) >= 3
       THEN /\ focus.kind = "entity"
            /\ \A e \in EntitiesIn(S) : EntityFrequency(S, e) <= EntityFrequency(S, focus.value)
       ELSE IF \E f \in FilesIn(S) : FileFrequency(S, f) >= 3
       THEN /\ focus.kind = "file"
            /\ \A f \in FilesIn(S) : FileFrequency(S, f) <= FileFrequency(S, focus.value)
       ELSE focus = NoFocus

(***************************************************************************)
(* SpecFault: memory_suggestions on the tables of SpecArchive, with a      *)
(* store whose query fails in one of the scans.                            *)
(***************************************************************************)
InitFault == InitArchive

NextFault ==
  \E inp \in ArchiveSuggestionInputs : \E failing \in Scans \cup {"none"} :
    SuggestWithFailingScan(inp, failing)

SpecFault == InitFault /\ [][NextFault]_vars

\* C13: when the query of exactly one scan fails, the call still returns a
\* result; the failed category is empty and the other categories are what
\* they are without the failure
C13_FailedScanDegrades ==
  (last.op = "suggest_call" /\ last.failing \in Scans) =>
    /\ last.out.isError = FALSE
    /\ LET r == last.out.result
           full == getSuggestions(store, last.at, last.input)
           ofType(list, type) == {i \in 1..Len(list) : list[i].type = type}
       IN /\ last.failing = "forgotten" => r.forgotten_knowledge = <<>>
          /\ last.failing # "forgotten" => r.forgotten_knowledge = full.forgotten_knowledge
          /\ last.failing = "todos" => ofType(r.potential_issues, "unresolved_todo") = {}
          /\ last.failing = "errors" => ofType(r.potential_issues, "repeated_error") = {}
          /\ last.failing \notin {"todos", "errors"} =>
               r.potential_issues = full.potential_issues
          /\ last.failing = "practices" => ofType(r.suggestions, "best_practice") = {}

(***************************************************************************)
(* SpecIssues: memory_suggestions on tables built for its scans.  Issue    *)
(* tables hold rows with a marker line, up to two groups of error reports  *)
(* of one hash each, and possibly an error report older than a week.       *)
(***************************************************************************)
\* the most rows with a marker an issue table holds
MaxTodoRecords == 6
\* the sizes of the two groups of error reports
MaxErrorGroup == 3
MaxSecondGroup == 2

TodoContents ==
  << <<"TODO", "cleanup">>, <<"setup", "\n", "FIXME", "later">>, <<"hacker", "news">> >>

\* k rows with marker content c (project A), then e1 reports of one error
\* (project A) and e2 of another (project B) from two days ago, then s
\* reports of the first error from eight days ago
IssueTable(k, c, e1, e2, s) ==
  [i \in 1..(k + e1 + e2 + s) |->
     IF i <= k
     THEN Row(i, Now0 - 90 * MinuteMs - i, FALSE, "A", NULL, "code", c, "hash-todo",
              NoEntities, 500, 0, Now0 - DayMs)
     ELSE IF i <= k + e1
     THEN Row(i, Now0 - 2 * DayMs - i, FALSE, "A", NULL, "code",
              <<"Error", "in", "parser">>, "hash-error", NoEntities, 500, 0, Now0 - DayMs)
     ELSE IF i <= k + e1 + e2
     THEN Row(i, Now0 - 2 * DayMs - i, FALSE, "B", NULL, "code",
              <<"exception", "raised">>, "hash-exception", NoEntities, 500, 0, Now0 - DayMs)
     ELSE Row(i, Now0 - 8 * DayMs - i, FALSE, "A", NULL, "code",
              <<"Error", "in", "parser">>, "hash-error", NoEntities, 500, 0, Now0 - DayMs)]

\* the largest table of rows to review
MaxForgottenRecords == 11

ImportanceCycle == <<900, 600, 599, 750>>

\* never accessed; accessed 20 days ago; 14 days ago to the millisecond; a
\* millisecond earlier; 13 days ago
AccessCycle ==
  <<NULLNUM, Now0 - 20 * DayMs, Now0 - 14 * DayMs, Now0 - 14 * DayMs - 1, Now0 - 13 * DayMs>>

\* n notes, 20 days old, of projects B and A in turn.  Importance and last
\* access run through the cycles from offsets imode and lmode; imode 4 makes
\* every row important and lmode 5 every row never accessed; with arch 1
\* every third row is archived
ForgottenTable(n, imode, lmode, arch) ==
  [i \in 1..n |->
     Row(i, Now0 - 20 * DayMs - i, arch = 1 /\ i % 3 = 0,
         IF i % 2 = 0 THEN "A" ELSE "B", NULL, "note", <<"note">>, "h", NoEntities,
         IF imode = 4 THEN 900 ELSE ImportanceCycle[((i + imode) % 4) + 1],
         0,
         IF lmode = 5 THEN NULLNUM ELSE AccessCycle[((i + lmode) % 5) + 1])]

IssueInputs ==
  { SuggestionsInput(project, context_type, limit) :
      project \in {NULL, "A"}, context_type \in {NULL, "debugging"}, limit \in {-1, 0, 2, 5} }

InitIssues ==
  /\ \/ \E k \in 0..MaxTodoRecords : \E c \in 1..Len(TodoContents) :
          \E e1 \in 0..MaxErrorGroup : \E e2 \in 0..MaxSecondGroup : \E s \in 0..1 :
            store = IssueTable(k, TodoContents[c], e1, e2, s)
     \/ \E n \in 0..MaxForgottenRecords : \E imode \in 0..4 : \E lmode \in 0..5 :
          \E arch \in {0, 1} :
            store = ForgottenTable(n, imode, lmode, arch)
  /\ now = Now0
  /\ last = NoCall
  /\ vectors = VectorsOf(store)
  /\ statistics = StatisticsOf(store)
  /\ inflight = {}
  /\ searched = {}

NextIssues == \E inp \in IssueInputs : GetSuggestions(inp)

SpecIssues == InitIssues /\ [][NextIssues]_vars

\* the live rows of the last call's project
InProject ==
  {i \in 1..Len(store) :
     ~store[i].archived /\ (Truthy(last.input.project) => store[i].project = last.input.project)}

\* the rows with a marker, and the ten newest of them
MarkerRows ==
  {i \in InProject : \E p \in 1..Len(store[i].content) :
     \E w \in {"todo", "fixme", "hack"} : SubstringOf(w, ToLower(store[i].content[p]))}
NewestMarkerRows ==
  {i \in MarkerRows : Cardinality({j \in MarkerRows : NewerRow(j, i)}) < 10}

\* the error reports of the last seven days with hash h
ErrorRows(h) ==
  {i \in InProject :
     /\ store[i].content_hash = h
     /\ store[i].timestamp > last.at - 7 * DayMs
     /\ \E p \in 1..Len(store[i].content) :
          \E w \in {"error", "exception"} : SubstringOf(w, ToLower(store[i].content[p]))}

\* C14: potential_issues holds an issue for each of the up to 10 newest rows
\* with a marker and an issue for each group of error reports of one hash,
\* of severity high when the group has 3 rows or more
C14_AllIssuesListed ==
  Suggested =>
    LET issues == last.out.potential_issues
        hashes == {store[i].content_hash : i \in InProject}
    IN /\ \A i \in NewestMarkerRows :
            \E x \in 1..Len(issues) :
              issues[x].type = "unresolved_todo" /\ issues[x].memory_id = i
       /\ \A h \in hashes : Cardinality(ErrorRows(h)) > 1 =>
            \E x \in 1..Len(issues) :
              /\ issues[x].type = "repeated_error"
              /\ issues[x].title.n = Cardinality(ErrorRows(h))
              /\ issues[x].severity = (IF Cardinality(ErrorRows(h)) >= 3 THEN "high" ELSE "medium")

\* the suggestions of the last call before the cut to limit
UncutSuggestions ==
  getSuggestions(store, last.at, [last.input EXCEPT !.limit = 4 * PerSourceSuggestions]).suggestions

\* C15: the suggestions list is the first limit elements of the stable
\* priority-descending sort of at most 2 forgotten-knowledge items (priority
\* 7), at most 2 items of high-severity issues (9), at most 2 best-practice
\* items (5) and the debugging item (8) iff the hint is debugging; it has at
\* most limit entries and omits nothing of higher priority than it contains
C15_SuggestionsTopLimit ==
  Suggested =>
    LET sug == last.out.suggestions
        full == UncutSuggestions
        limit == Max(last.input.limit, 0)
        ofType(type) == {i \in 1..Len(full) : full[i].type = type}
        high == {i \in 1..Len(last.out.potential_issues) :
                   last.out.potential_issues[i].severity = "high"}
    IN /\ Len(sug) <= limit
       /\ sug = SubSeq(full, 1, Min(limit, Len(full)))
       /\ \A i, j \in 1..Len(full) : i < j => full[i].priority >= full[j].priority
       /\ Cardinality(ofType("forgotten_knowledge"))
            = Min(2, Len(last.out.forgotten_knowledge))
       /\ Cardinality(ofType("issue_suggestion")) = Min(2, Cardinality(high))
       /\ Cardinality(ofType("best_practice")) <= 2
       /\ Cardinality(ofType("pattern_suggestion"))
            = (IF last.input.context_type = "debugging" THEN 1 ELSE 0)
       /\ \A i \in 1..Len(full) :
            full[i].priority =
              (CASE full[i].type = "forgotten_knowledge" -> 7
                 [] full[i].type = "issue_suggestion" -> 9
                 [] full[i].type = "best_practice" -> 5
                 [] full[i].type = "pattern_suggestion" -> 8)
       /\ \A i \in 1..Len(full) : \A x \in 1..Len(sug) :
            full[i].priority > sug[x].priority => \E y \in 1..Len(sug) : sug[y] = full[i]

\* C16: every forgotten_knowledge entry names a live row of importance 0.6
\* or more, never accessed or last accessed earlier than 14 days before the
\* call; at most 10 entries, importance non-increasing; days_since_access is
\* 999 for a row never accessed and otherwise the whole days since the last
\* access, 14 at least
C16_ForgottenKnowledge ==
  Suggested =>
    LET fk == last.out.forgotten_knowledge
    IN /\ Len(fk) <= 10
       /\ \A x, y \in 1..Len(fk) : x < y => fk[x].importance_score >= fk[y].importance_score
       /\ \A x \in 1..Len(fk) :
            LET r == store[fk[x].memory_id]
            IN /\ ~r.archived
               /\ r.importance_score >= 600
               /\ fk[x].importance_score = r.importance_score
               /\ r.last_accessed = NULLNUM \/ r.last_accessed < last.at - 14 * DayMs
               /\ fk[x].days_since_access =
                    (IF r.last_accessed = NULLNUM THEN 999
                     ELSE (last.at - r.last_accessed) \div DayMs)
               /\ fk[x].days_since_access >= 14

\* the list reports a row last accessed 20 days ago with 20 days, one last
\* accessed a millisecond more than 14 days ago with 14 and one never
\* accessed with 999, while an important live row last accessed 14 days ago
\* to the millisecond is not listed
C16_Witness ==
  /\ Suggested
  /\ LET fk == last.out.forgotten_knowledge
         days == {fk[x].days_since_access : x \in 1..Len(fk)}
     IN /\ {14, 20, 999} \subseteq days
        /\ \E i \in InProject :
             /\ store[i].importance_score >= 600
             /\ store[i].last_accessed = last.at - 14 * DayMs
             /\ \A x \in 1..Len(fk) : fk[x].memory_id # i

(***************************************************************************)
(* SpecTwice: the analyzers and memory_suggestions called, and called      *)
(* again, on the tables of SpecArchive.                                    *)
(***************************************************************************)
InitTwice == InitArchive

NextTwice ==
  \/ \E inp \in ArchiveRecallInputs : RecallContext(inp)
  \/ \E projectHint \in {NULL, "A"} : AnalyzeContext(projectHint, NULL)
  \/ \E inp \in ArchiveSuggestionInputs : GetSuggestions(inp)
  \/ CallAgain

SpecTwice == InitTwice /\ [][NextTwice]_vars

StoreContents == { <<"alpha">>, <<"beta">>, <<>> }

\* createHash('sha256').update(content).digest('hex'): one digest per content
HashOf(content) ==
  CASE content = <<"alpha">> -> "sha256:alpha"
    [] content = <<"beta">> -> "sha256:beta"
    [] content = <<"gamma">> -> "sha256:gamma"
    [] content = <<"delta">> -> "sha256:delta"
    [] OTHER -> "sha256:"

\* IMPORTANCE_SCORES[params.importance || 'medium'], in 1/1000
IMPORTANCE_SCORES(importance) ==
  CASE importance = "low" -> 250
    [] importance = "high" -> 750
    [] importance = "critical" -> 1000
    [] OTHER -> 500

\* value || null for a text parameter: undefined and '' become NULL
OrNull(value) == IF value = "" THEN NULL ELSE value

\* the arguments of a memory_store call; an absent project is NULL
StoreParams(content, type, project, importance) ==
  [content |-> content, type |-> type, tier |-> NULL, source |-> "manual",
   project |-> project, importance |-> importance]

\* the same arguments with the optional tier supplied
WithTier(params, tier) == [params EXCEPT !.tier = tier]

\* how the services behave during one call: each step that can throw does, or
\* none
StoreOutcomes == {"ok", "embedding_fails", "insert_fails", "vector_fails", "statistics_fails"}

\* the duplicate check without the archived test
ExistingAnyArchived(st, contentHash) ==
  LET same(r) == r.content_hash = contentHash
  IN Filter(Rows(st), same)

\* SELECT id FROM memories WHERE content_hash = ? AND archived = 0
Existing(st, contentHash) ==
  LET same(r) == r.content_hash = contentHash /\ ~r.archived
  IN Filter(Rows(st), same)

\* the result of a call that threw: handed to the client as an error
ThrownResponse(tool, message) == [isError |-> TRUE, error |-> message, tool |-> tool]

\* the row handleStoreMemory inserts
StoredRow(id, timestamp, params) ==
  [ Row(id, timestamp, FALSE, OrNull(params.project), NULL, params.type, params.content,
        HashOf(params.content), NoEntities, IMPORTANCE_SCORES(params.importance), 0,
        timestamp) EXCEPT !.tier = "short" ]

\* handleStoreMemory: the tables after the call and the response
handleStoreMemory(st, vs, stats, t, params, outcome) ==
  LET id == Len(st) + 1
      contentHash == HashOf(params.content)
      existing == Existing(st, contentHash)
      unchanged(out) == [store |-> st, vectors |-> vs, statistics |-> stats, out |-> out]
      inserted == Append(st, StoredRow(id, t, params))
      added == Append(vs, VectorRecord(id, params.content, t, params.type, "short",
                                       params.project))
  IN IF params.content = <<>>
       THEN unchanged(ThrownResponse("memory_store", "Content cannot be empty"))
     ELSE IF existing # <<>>
       THEN unchanged([success |-> FALSE, error |-> "Duplicate memory",
                       existing_memory_id |-> existing[1].id,
                       message |-> "This content has already been stored"])
     ELSE IF outcome = "embedding_fails"
       THEN unchanged(ThrownResponse("memory_store", "embedding failed"))
     ELSE IF outcome = "insert_fails"
       THEN unchanged(ThrownResponse("memory_store", "insert failed"))
     ELSE IF outcome = "vector_fails"
       THEN [store |-> inserted, vectors |-> vs, statistics |-> stats,
             out |-> ThrownResponse("memory_store", "Failed to add vector")]
     ELSE IF outcome = "statistics_fails"
       THEN [store |-> inserted, vectors |-> added, statistics |-> stats,
             out |-> ThrownResponse("memory_store", "update failed")]
     ELSE [store |-> inserted, vectors |-> added,
           statistics |-> [stats EXCEPT !.total_memories = @ + 1],
           out |-> [success |-> TRUE, memory_id |-> id, type |-> params.type,
                    source |-> params.source,
                    importance |-> IF params.importance = NULL THEN "medium"
                                   ELSE params.importance,
                    timestamp |-> t]]

\* the most rows the table grows to
MaxStoreRecords == 4

\* the tool call
StoreMemory(params, outcome) ==
  /\ Len(store) < MaxStoreRecords
  /\ LET r == handleStoreMemory(store, vectors, statistics, now, params, outcome)
     IN /\ store' = r.store
        /\ vectors' = r.vectors
        /\ statistics' = r.statistics
        /\ last' = [op |-> "store", input |-> params, at |-> now, outcome |-> outcome,
                    out |-> r.out]
  /\ UNCHANGED <<now, inflight, searched>>

\* the clock advances by a minute, a bounded number of times
MaxTicks == 1
Tick ==
  /\ now < Now0 + MaxTicks * MinuteMs
  /\ now' = now + MinuteMs
  /\ UNCHANGED <<store, last, vectors, statistics, inflight, searched>>

(***************************************************************************)
(* SpecStore: store calls, with and without service failures, on tables    *)
(* that hold live and archived rows of the same content.                   *)
(***************************************************************************)
\* the largest table the initial states hold
MaxStoredBefore == 2
\* content (alpha, beta) x archived (0, 1)
StoreProfiles == 2 * 2

\* a row an earlier store call wrote i days ago, archived since or not
StoreRow(i, p) ==
  LET content == IF p % 2 = 0 THEN <<"alpha">> ELSE <<"beta">>
      ts == Now0 - i * DayMs
  IN Row(i, ts, p \div 2 = 1, IF i = 1 THEN "A" ELSE NULL, NULL, "note", content,
         HashOf(content), NoEntities, 500, 0, ts)

StoreTable(n, f) == [i \in 1..n |-> StoreRow(i, f[i])]

\* no two non-archived rows share a content_hash
UniqueLive(st) ==
  \A i, j \in 1..Len(st) :
    (i # j /\ ~st[i].archived /\ ~st[j].archived)
      => st[i].content_hash # st[j].content_hash

StoreInputs ==
  { StoreParams(<<"alpha">>, "note", NULL, NULL),
    StoreParams(<<"alpha">>, "code", "A", "high"),
    WithTier(StoreParams(<<"beta">>, "note", "", "low"), "working"),
    StoreParams(<<>>, "note", NULL, NULL) }

InitStore ==
  /\ \E n \in 0..MaxStoredBefore : \E f \in [1..n -> 0..(StoreProfiles - 1)] :
       /\ UniqueLive(StoreTable(n, f))
       /\ store = StoreTable(n, f)
  /\ now = Now0
  /\ last = NoCall
  /\ vectors = VectorsOf(store)
  /\ statistics = StatisticsOf(store)
  /\ inflight = {}
  /\ searched = {}

NextStore ==
  \/ \E params \in StoreInputs : \E outcome \in StoreOutcomes : StoreMemory(params, outcome)
  \/ Tick

SpecStore == InitStore /\ [][NextStore]_vars

\* the non-archived rows with the hash of this content
LiveDuplicates(st, content) ==
  {i \in 1..Len(st) : ~st[i].archived /\ st[i].content_hash = HashOf(content)}

\* C18: a memory_store call whose content hashes like an existing
\* non-archived record answers success = false, error 'Duplicate memory' and
\* that record's id, and leaves the memories table, the vector store and the
\* total_memories statistic as they were; and a table without two
\* non-archived records of one content_hash stays so across every store call.
C18_DuplicateRejected ==
  [][ /\ (/\ last'.op = "store"
          /\ now' = now
          /\ last'.input.content # <<>>
          /\ LiveDuplicates(store, last'.input.content) # {})
        => /\ DOMAIN last'.out = {"success", "error", "existing_memory_id", "message"}
           /\ last'.out.success = FALSE
           /\ last'.out.error = "Duplicate memory"
           /\ last'.out.existing_memory_id \in LiveDuplicates(store, last'.input.content)
           /\ store' = store
           /\ vectors' = vectors
           /\ statistics'.total_memories = statistics.total_memories
      /\ UniqueLive(store) => UniqueLive(store') ]_vars

\* a store call was refused as a duplicate of a live row, in a table that
\* also holds an archived row of the same content
C18_Witness ==
  /\ last.op = "store"
  /\ "success" \in DOMAIN last.out
  /\ last.out.success = FALSE
  /\ last.out.error = "Duplicate memory"
  /\ store[last.out.existing_memory_id].content = last.input.content
  /\ \E i \in 1..Len(store) :
       store[i].archived /\ store[i].content = last.input.content

(***************************************************************************)
(* memory_search (handleSearchMemory).  Distances are kept in 1/10000, as  *)
(* the similarity score is reported with four decimals.                    *)
(***************************************************************************)
\* the queries of the model
SearchQueries == {"about alpha", "about gamma", "anything"}

\* the distance LanceDB reports between the embedding of a query and the
\* embedding of a content
Distance(query, content) ==
  CASE query = "about alpha" ->
         (CASE content = <<"alpha">> -> 1000
            [] content = <<"beta">> -> 6000
            [] content = <<"gamma">> -> 12000
            [] OTHER -> 9000)
    [] query = "about gamma" ->
         (CASE content = <<"alpha">> -> 12000
            [] content = <<"beta">> -> 6000
            [] content = <<"gamma">> -> 1000
            [] OTHER -> 3000)
    [] OTHER -> 5000

\* params.filters absent or {}; no filter of a kind is an absent or empty
\* array, an absent range or number
NoFilters ==
  [types |-> <<>>, tiers |-> <<>>, time_range |-> <<>>, projects |-> <<>>,
   min_importance |-> NULLNUM]

\* the arguments of a memory_search call; time_range is <<start, end>> in
\* epoch milliseconds
SearchParams(query, filters, limit) == [query |-> query, filters |-> filters, limit |-> limit]

\* the filter handed to LanceDB: the conditions on the record's metadata,
\* joined by AND
LanceFilter(filters, v) ==
  /\ Len(filters.types) > 0 => v.type \in Range(filters.types)
  /\ Len(filters.tiers) > 0 => v.tier \in Range(filters.tiers)
  /\ Len(filters.time_range) > 0 =>
       (v.timestamp >= filters.time_range[1] /\ v.timestamp <= filters.time_range[2])
  /\ Len(filters.projects) > 0 => v.project \in Range(filters.projects)

\* searchVectors: the limit nearest records among those that pass the filter,
\* nearest first, each with its _distance
searchVectors(vs, query, limit, filters) ==
  LET pass(v) == LanceFilter(filters, v)
      withDistance(v) == [id |-> v.id, _distance |-> Distance(query, v.content)]
      nearer(a, b) == a._distance < b._distance
  IN JsSlice0(StableSort(Map(Filter(vs, pass), withDistance), nearer), limit)

\* the SELECT without the importance condition
SearchWhereAnyImportance(filters, memoryIds, r) ==
  /\ r.id \in memoryIds
  /\ ~r.archived
  /\ Len(filters.projects) > 0 => r.project \in Range(filters.projects)

\* SELECT * FROM memories WHERE id IN (...) AND archived = 0
\* [AND project IN (...)] [AND importance_score >= ?]
SearchWhere(filters, memoryIds, r) ==
  /\ r.id \in memoryIds
  /\ ~r.archived
  /\ Len(filters.projects) > 0 => r.project \in Range(filters.projects)
  /\ filters.min_importance # NULLNUM =>
       (r.importance_score # NULLNUM /\ r.importance_score >= filters.min_importance)

\* JSON.parse(row.entities) outside any try/catch throws on unparsable text
EntitiesThrow(r) == r.entities.kind = "bad"

\* one entry of the results array
SearchResult(r, score) ==
  [id |-> r.id, type |-> r.type, tier |-> r.tier, project |-> r.project,
   timestamp |-> r.timestamp, importance |-> r.importance_score,
   similarity_score |-> score, access_count |-> r.access_count]

\* the UPDATE that counts the access and leaves last_accessed as it was
TouchRowsCountOnly(st, rows, t) ==
  LET ids == {rows[x].id : x \in 1..Len(rows)}
  IN [i \in 1..Len(st) |->
        IF st[i].id \in ids THEN [st[i] EXCEPT !.access_count = @ + 1] ELSE st[i]]

\* for (const row of rows) updateStmt.run(now, row.id)
TouchRows(st, rows, t) ==
  LET ids == {rows[x].id : x \in 1..Len(rows)}
  IN [i \in 1..Len(st) |->
        IF st[i].id \in ids
          THEN [st[i] EXCEPT !.access_count = @ + 1, !.last_accessed = t]
          ELSE st[i]]

\* handleSearchMemory: the tables after the call and the response
handleSearchMemory(st, vs, stats, t, params) ==
  LET vectorResults == searchVectors(vs, params.query, params.limit * 2, params.filters)
      memoryIds == {vectorResults[x].id : x \in 1..Len(vectorResults)}
      where(r) == SearchWhere(params.filters, memoryIds, r)
      rows == Filter(Rows(st), where)
      distanceOf(r) ==
        LET x == CHOOSE y \in 1..Len(vectorResults) : vectorResults[y].id = r.id
        IN vectorResults[x]._distance
      result(r) == SearchResult(r, 10000 - distanceOf(r))
      higher(a, b) == a.similarity_score > b.similarity_score
      results == StableSort(Map(rows, result), higher)
      limitedResults == JsSlice0(results, params.limit)
      touched == TouchRows(st, rows, t)
      counted == [stats EXCEPT !.total_searches = @ + 1]
  IN IF memoryIds = {}
       THEN [store |-> st, statistics |-> stats,
             out |-> [results |-> <<>>, count |-> 0, query |-> params.query]]
     ELSE IF \E x \in 1..Len(rows) : EntitiesThrow(rows[x])
       THEN [store |-> touched, statistics |-> counted,
             out |-> ThrownResponse("memory_search", "Unexpected token")]
     ELSE [store |-> touched, statistics |-> counted,
           out |-> [results |-> limitedResults, count |-> Len(limitedResults),
                    query |-> params.query]]

\* the ids of the records a search response lists
ReturnedIds(out) ==
  IF "results" \in DOMAIN out THEN {out.results[x].id : x \in 1..Len(out.results)} ELSE {}

\* one entry of searched: a search call at time at returned the record id
Returned(id, at) == [id |-> id, at |-> at]

\* the most searches of one behaviour that reach the memories table
MaxSearches == 1

\* the tool call
SearchMemory(params) ==
  /\ statistics.total_searches < MaxSearches
  /\ LET r == handleSearchMemory(store, vectors, statistics, now, params)
     IN /\ store' = r.store
        /\ statistics' = r.statistics
        /\ last' = [op |-> "search", input |-> params, at |-> now, out |-> r.out]
        /\ searched' = searched \cup {Returned(id, now) : id \in ReturnedIds(r.out)}
  /\ UNCHANGED <<now, vectors, inflight>>

(***************************************************************************)
(* SpecSearch: searches and stores on tables whose rows differ in content, *)
(* archival, type, project, importance, age and entities text.             *)
(***************************************************************************)
\* the largest table the initial states hold
MaxSearchRecords == 2
SearchProfiles == 6

\* the rows of the initial tables, as the store tool and the background
\* workers (archival, entity extraction) left them
SearchRow(i, p) ==
  LET recent == Now0 - DayMs
      old == Now0 - 10 * DayMs
  IN CASE p = 0 -> Row(i, recent, FALSE, "A", NULL, "note", <<"alpha">>, HashOf(<<"alpha">>),
                       NoEntities, 750, 0, recent)
       [] p = 1 -> Row(i, old, TRUE, "A", NULL, "note", <<"alpha">>, HashOf(<<"alpha">>),
                       NoEntities, 750, 2, recent)
       [] p = 2 -> Row(i, recent, FALSE, "A", NULL, "code", <<"beta">>, HashOf(<<"beta">>),
                       JsonEntities(<<"fetch">>), 250, 1, recent)
       [] p = 3 -> Row(i, old, FALSE, "A", NULL, "note", <<"gamma">>, HashOf(<<"gamma">>),
                       NoEntities, 750, 0, old)
       [] p = 4 -> Row(i, old, FALSE, "A", NULL, "note", <<"delta">>, HashOf(<<"delta">>),
                       BadEntities(<<"fetch">>), 500, 0, old)
       [] OTHER -> Row(i, recent, FALSE, "B", NULL, "note", <<"gamma">>, HashOf(<<"gamma">>),
                       NoEntities, 250, 3, recent)

SearchTable(n, f) == [i \in 1..n |-> SearchRow(i, f[i])]

SearchFilters ==
  { NoFilters,
    [NoFilters EXCEPT !.types = <<"note">>, !.tiers = <<"short">>],
    [NoFilters EXCEPT !.tiers = <<"working", "long">>],
    [NoFilters EXCEPT !.projects = <<"A", "">>, !.min_importance = 500],
    [NoFilters EXCEPT !.types = <<"note", "code">>,
                      !.time_range = <<Now0 - 2 * DayMs, Now0>>] }

SearchInputs ==
  { SearchParams(q, f, l) : q \in SearchQueries, f \in SearchFilters, l \in {1, 2} }

SearchStoreInputs ==
  { StoreParams(<<"alpha">>, "note", "A", "high"),
    StoreParams(<<"beta">>, "code", "", NULL) }

InitSearch ==
  /\ \E n \in 0..MaxSearchRecords : \E f \in ProfileTables(n, SearchProfiles) :
       /\ UniqueLive(SearchTable(n, f))
       /\ store = SearchTable(n, f)
  /\ now = Now0
  /\ last = NoCall
  /\ vectors = VectorsOf(store)
  /\ statistics = StatisticsOf(store)
  /\ inflight = {}
  /\ searched = {}

\* the store calls between searches succeed or lose their vector
SearchStoreOutcomes == {"ok", "vector_fails"}

NextSearch ==
  \/ \E params \in SearchInputs : SearchMemory(params)
  \/ \E params \in SearchStoreInputs : \E outcome \in SearchStoreOutcomes :
       StoreMemory(params, outcome)

SpecSearch == InitSearch /\ [][NextSearch]_vars

\* C19: a memory_search call adds exactly 1 to access_count and sets
\* last_accessed to the call time for exactly the records it returns, and
\* leaves both columns of every other record as they were (matches cut off by
\* limit included); and no operation ever lowers an access_count.
C19_SearchCountsReturned ==
  [][ /\ (last'.op = "search" /\ now' = now /\ Len(store') = Len(store))
        => \A i \in 1..Len(store) :
             IF (last' # last /\ store[i].id \in ReturnedIds(last'.out))
               THEN /\ store'[i].access_count = store[i].access_count + 1
                    /\ store'[i].last_accessed = last'.at
               ELSE /\ store'[i].access_count = store[i].access_count
                    /\ store'[i].last_accessed = store[i].last_accessed
      /\ Len(store') >= Len(store)
      /\ \A i \in 1..Len(store) : store'[i].access_count >= store[i].access_count ]_vars

\* the row's stored fields satisfy every supplied filter
SatisfiesFilters(r, filters) ==
  /\ Len(filters.types) > 0 => \E x \in 1..Len(filters.types) : r.type = filters.types[x]
  /\ Len(filters.tiers) > 0 => \E x \in 1..Len(filters.tiers) : r.tier = filters.tiers[x]
  /\ Len(filters.projects) > 0 =>
       \E x \in 1..Len(filters.projects) : r.project = filters.projects[x]
  /\ filters.min_importance # NULLNUM =>
       (r.importance_score # NULLNUM /\ r.importance_score >= filters.min_importance)
  /\ Len(filters.time_range) > 0 =>
       (filters.time_range[1] <= r.timestamp /\ r.timestamp <= filters.time_range[2])

ReasonKinds(reason) == {reason[x].kind : x \in 1..Len(reason)}

\* C21: the recall_reason of every recalled memory follows from the score
\* terms that fired: it holds the same-project note exactly when the score
\* got the 0.35 primary-project component (a null project under a context
\* without primary project included), the related-entities note exactly when
\* the entity-overlap component is above 0, and it is 'General relevance'
\* exactly when no note applies.
C21_ReasonFromTerms ==
  Recalled =>
    \A i \in 1..Len(LastRecalled) :
      LET memory == store[LastRecalled[i].id]
          kinds == ReasonKinds(LastRecalled[i].recall_reason)
          primary == ProjectTerm(memory, LastContext) = PrimaryProjectWeight
          overlap == EntityTerm(memory, LastContext) > 0
          high == memory.importance_score # NULLNUM
                    /\ memory.importance_score >= HighImportance
      IN /\ ("same_project" \in kinds) <=> primary
         /\ ("related_entities" \in kinds) <=> overlap
         /\ (LastRecalled[i].recall_reason = <<NoReason>>)
              <=> (~primary /\ ~overlap /\ ~high)

(***************************************************************************)
(* Properties of store calls (checked under SpecStore)                     *)
(***************************************************************************)
\* the last call was a store call that answered success
Stored == last.op = "store" /\ "memory_id" \in DOMAIN last.out

\* C22: a successful memory_store call that supplies a tier creates a record
\* and vector metadata of that tier; the tier is 'short' only when the caller
\* omits it.
C22_TierAsSupplied ==
  Stored =>
    LET tier == IF last.input.tier = NULL THEN "short" ELSE last.input.tier
    IN /\ store[last.out.memory_id].tier = tier
       /\ \E v \in 1..Len(vectors) :
            vectors[v].id = last.out.memory_id /\ vectors[v].tier = tier

(***************************************************************************)
(* ContextClient.recallMemories: recall from a context snapshot the caller *)
(* hands in, or from a fresh one.                                          *)
(***************************************************************************)
\* ContextClient.calculateRelevance: the project terms, without a test that
\* memory.project is set
ClientProjectTerm(memory, context) ==
  IF memory.project = context.primary_project THEN PrimaryProjectWeight
  ELSE IF memory.project \in Range(context.active_projects) THEN ActiveProjectWeight
  ELSE 0

ClientCalculateRelevance(memory, context) ==
  Round3(ClientProjectTerm(memory, context) + EntityTerm(memory, context)
         + ImportanceTerm(memory) + AccessTerm(memory))

\* ContextClient.getRecallReason: the same-project note without a test that
\* memory.project is set
ClientGetRecallReason(memory, context) ==
  LET overlap == EntityOverlap(memory, context)
      same == IF memory.project = context.primary_project
              THEN << [kind |-> "same_project", project |-> memory.project, names |-> <<>>] >>
              ELSE <<>>
      related == IF Len(overlap) > 0
                 THEN << [kind |-> "related_entities", project |-> NULL,
                          names |-> JsSlice0(overlap, 3)] >>
                 ELSE <<>>
      high == IF memory.importance_score # NULLNUM /\ memory.importance_score >= HighImportance
              THEN << [kind |-> "high_importance", project |-> NULL, names |-> <<>>] >>
              ELSE <<>>
      reasons == same \o related \o high
  IN IF Len(reasons) > 0 THEN reasons ELSE <<NoReason>>

\* limit ?? this.recallLimit
EffectiveLimit(limit) == IF limit = NULLNUM THEN ClientRecallLimit ELSE limit

\* const excludeCutoff = Date.now() - this.recentWindowMinutes * 60 * 1000
ClientExcludeCutoff(t) == t - ClientWindowMinutes * MinuteMs

\* ContextClient.recallMemories with the context given
ClientRecallMemories(st, t, context, limit) ==
  LET effectiveLimit == EffectiveLimit(limit)
      excludeCutoff == ClientExcludeCutoff(t)
      score(memory) ==
        [ id |-> memory.id, type |-> memory.type,
          content |-> StrSlice0(memory.content, RecallContentChars),
          project |-> memory.project,
          relevance_score |-> ClientCalculateRelevance(memory, context),
          recall_reason |-> ClientGetRecallReason(memory, context) ]
      scored == Map(Candidates(st, context, excludeCutoff, effectiveLimit), score)
  IN IF ~context.active THEN <<>>
     ELSE IF ConditionCount(context) = 0 THEN <<>>
     ELSE JsSlice0(ByRelevance(scored), effectiveLimit)

\* a recallMemories call: with the snapshot the last analyzeContext call
\* returned, or with none, when the client analyzes first
RecallMemories(snapshot, limit) ==
  /\ snapshot => last.op = "analyze"
  /\ LET analyzedAt == IF snapshot THEN last.at ELSE now
         hints == IF snapshot THEN last.input ELSE ClientInput(NULL, NULL)
         context == IF snapshot THEN last.out.context
                    ELSE ClientAnalyzeContext(store, now, NULL, NULL)
     IN last' = [op |-> "client_recall", snapshot |-> snapshot, limit |-> limit,
                 context |-> context, hints |-> hints, analyzed_at |-> analyzedAt,
                 at |-> now,
                 out |-> ClientRecallMemories(store, now, context, limit)]
  /\ UNCHANGED <<store, now, vectors, statistics, inflight, searched>>

(***************************************************************************)
(* SpecClient: analyzeContext, the clock, recallMemories, on tables with   *)
(* rows well inside the window, near its far edge, and older.              *)
(***************************************************************************)
MaxClientRecords == 3
\* age (3) x project (2) x entities (2)
ClientProfiles == 3 * 2 * 2

ClientRow(id, p) ==
  LET age == p % 3
      proj == (p \div 3) % 2
      ents == (p \div 6) % 2
  IN Row(id,
         CASE age = 0 -> Now0 - 5 * MinuteMs + id
           [] age = 1 -> Now0 - 30 * MinuteMs + MinuteMs \div 2 + id
           [] OTHER -> Now0 - 90 * MinuteMs + id,
         FALSE,
         IF proj = 0 THEN NULL ELSE "A",
         NULL, "note", <<"note">>, "h",
         IF ents = 0 THEN NoEntities ELSE JsonEntities(<<"fetch">>),
         500, 0, NULLNUM)

ClientTable(n, f) == [i \in 1..n |-> ClientRow(i, f[i])]

InitClient ==
  /\ \E n \in 0..MaxClientRecords : \E f \in ProfileTables(n, ClientProfiles) :
       store = ClientTable(n, f)
  /\ now = Now0
  /\ last = NoCall
  /\ vectors = VectorsOf(store)
  /\ statistics = StatisticsOf(store)
  /\ inflight = {}
  /\ searched = {}

NextClient ==
  \/ \E projectHint \in {NULL, "A"} : AnalyzeContext(projectHint, NULL)
  \/ \E snapshot \in BOOLEAN : \E limit \in {NULLNUM, 1} : RecallMemories(snapshot, limit)
  \/ Tick

SpecClient == InitClient /\ [][NextClient]_vars

\* the rows the analyzeContext call behind the last recallMemories call
\* fetched to build the snapshot
SnapshotRows ==
  RecentMemories(store, CutoffTime(last.analyzed_at, last.hints), last.hints)

\* C23: when ContextClient.recallMemories is given the snapshot of an earlier
\* analyzeContext call, however much later, it returns no record that lay in
\* the window of that call and so contributed to the snapshot.
C23_SnapshotRowsExcluded ==
  (last.op = "client_recall" /\ last.snapshot) =>
    \A x \in 1..Len(last.out) : store[last.out[x].id] \notin Range(SnapshotRows)

(***************************************************************************)
(* memory_store as the event loop runs it: handleStoreMemory is async and  *)
(* gives up control at await generateEmbedding and at await addVector;     *)
(* what lies between two awaits runs without interruption.                 *)
(***************************************************************************)
\* the most store calls in flight at a time
MaxInflight == 2

\* a call suspended at an await: call is a number that tells calls with equal
\* arguments apart
Suspended(call, params, timestamp, pc, id) ==
  [call |-> call, params |-> params, timestamp |-> timestamp, pc |-> pc, id |-> id]

\* the numbers not taken by a call in flight
FreeCalls == (1..MaxInflight) \ {c.call : c \in inflight}

\* the call runs up to await embeddingClient.generateEmbedding: schema, hash,
\* duplicate check; a duplicate is answered at once
StoreBegin(params) ==
  /\ Len(store) < MaxStoreRecords
  /\ FreeCalls # {}
  /\ LET existing == Existing(store, HashOf(params.content))
         call == CHOOSE c \in FreeCalls : \A o \in FreeCalls : c <= o
     IN IF params.content = <<>>
          THEN /\ last' = [op |-> "store", input |-> params, at |-> now,
                           out |-> ThrownResponse("memory_store", "Content cannot be empty")]
               /\ UNCHANGED inflight
        ELSE IF existing # <<>>
          THEN /\ last' = [op |-> "store", input |-> params, at |-> now,
                           out |-> [success |-> FALSE, error |-> "Duplicate memory",
                                    existing_memory_id |-> existing[1].id,
                                    message |-> "This content has already been stored"]]
               /\ UNCHANGED inflight
        ELSE /\ inflight' = inflight \cup {Suspended(call, params, now, "embedding", 0)}
             /\ UNCHANGED last
  /\ UNCHANGED <<store, now, vectors, statistics, searched>>

\* the embedding request settles: on success the INSERT runs and the call
\* goes on to await addVector; on failure the call throws
StoreEmbedded(c, ok) ==
  /\ c \in inflight
  /\ c.pc = "embedding"
  /\ IF ok
       THEN LET id == Len(store) + 1
            IN /\ store' = Append(store, StoredRow(id, c.timestamp, c.params))
               /\ inflight' = (inflight \ {c}) \cup {[c EXCEPT !.pc = "vector", !.id = id]}
               /\ UNCHANGED last
       ELSE /\ inflight' = inflight \ {c}
            /\ last' = [op |-> "store", input |-> c.params, at |-> now,
                        out |-> ThrownResponse("memory_store", "embedding failed")]
            /\ UNCHANGED store
  /\ UNCHANGED <<now, vectors, statistics, searched>>

\* addVector settles: on success the statistic is counted and the call
\* answers; on failure the call throws
StoreVectorAdded(c, ok) ==
  /\ c \in inflight
  /\ c.pc = "vector"
  /\ inflight' = inflight \ {c}
  /\ IF ok
       THEN /\ vectors' = Append(vectors, VectorRecord(c.id, c.params.content, c.timestamp,
                                                       c.params.type, "short",
                                                       c.params.project))
            /\ statistics' = [statistics EXCEPT !.total_memories = @ + 1]
            /\ last' = [op |-> "store", input |-> c.params, at |-> now,
                        out |-> [success |-> TRUE, memory_id |-> c.id, type |-> c.params.type,
                                 source |-> c.params.source,
                                 importance |-> IF c.params.importance = NULL THEN "medium"
                                                ELSE c.params.importance,
                                 timestamp |-> c.timestamp]]
       ELSE /\ last' = [op |-> "store", input |-> c.params, at |-> now,
                        out |-> ThrownResponse("memory_store", "Failed to add vector")]
            /\ UNCHANGED <<vectors, statistics>>
  /\ UNCHANGED <<store, now, searched>>

(***************************************************************************)
(* SpecRace: store calls that overlap, on tables without two live rows of  *)
(* one content_hash.                                                       *)
(***************************************************************************)
RaceInputs ==
  { StoreParams(<<"alpha">>, "note", NULL, NULL),
    StoreParams(<<"alpha">>, "code", "A", "high"),
    StoreParams(<<"beta">>, "note", NULL, NULL) }

InitRace == InitStore

NextRace ==
  \/ \E params \in RaceInputs : StoreBegin(params)
  \/ \E c \in inflight : \E ok \in BOOLEAN : StoreEmbedded(c, ok)
  \/ \E c \in inflight : \E ok \in BOOLEAN : StoreVectorAdded(c, ok)

SpecRace == InitRace /\ [][NextRace]_vars

\* C24: however two or more memory_store calls of one content interleave
\* (each gives up control at the embedding request, between its duplicate
\* check and its insert), at most one of them inserts a record, so no two
\* non-archived records ever share a content_hash.
C24_ConcurrentStoresUnique == UniqueLive(store)

\* C25: memory_store is all-or-nothing.  A call that fails at a step
\* (embedding, SQLite insert, vector insert, statistics update) leaves no
\* memories row, no vector and total_memories as it was, and a retry with the
\* same content is not rejected as a duplicate; a call that succeeds leaves
\* the row, the vector and total_memories raised by exactly 1.
C25_StoreAllOrNothing ==
  [][ (last'.op = "store" /\ now' = now) =>
        /\ "isError" \in DOMAIN last'.out =>
             /\ store' = store
             /\ vectors' = vectors
             /\ statistics'.total_memories = statistics.total_memories
             /\ LiveDuplicates(store', last'.input.content) = {}
        /\ "memory_id" \in DOMAIN last'.out =>
             /\ Len(store') = Len(store) + 1
             /\ store'[Len(store')].id = last'.out.memory_id
             /\ store'[Len(store')].content = last'.input.content
             /\ Len(vectors') = Len(vectors) + 1
             /\ vectors'[Len(vectors')].id = last'.out.memory_id
             /\ statistics'.total_memories = statistics.total_memories + 1 ]_vars

(***************************************************************************)
(* SpecForget: searches and memory_suggestions calls over sixteen days, on *)
(* tables whose rows are important or not and were accessed half a day     *)
(* before the start or never.  The clock starts one day after the epoch,   *)
(* which keeps every time below 2^31 milliseconds.                         *)
(***************************************************************************)
ForgetStart == DayMs
\* the clock advances by four days, MaxSteps times
StepMs == 4 * DayMs
MaxSteps == 4
\* the largest table the initial states hold
MaxForgetRecords == 2
\* importance (0.8, 0.5) x last_accessed (never, half a day before the start)
ForgetProfiles == 2 * 2

ForgetRow(i, p) ==
  LET content == IF i = 1 THEN <<"alpha">> ELSE <<"gamma">>
      written == ForgetStart - DayMs \div 2
  IN Row(i, written, FALSE, IF i = 1 THEN "A" ELSE NULL, NULL, "note", content,
         HashOf(content), NoEntities, IF p % 2 = 0 THEN 800 ELSE 500,
         IF p \div 2 = 0 THEN 0 ELSE 1,
         IF p \div 2 = 0 THEN NULLNUM ELSE written)

ForgetTable(n, f) == [i \in 1..n |-> ForgetRow(i, f[i])]

ForgetSearches ==
  { SearchParams(q, NoFilters, l) : q \in {"about alpha", "about gamma"}, l \in {1, 2} }

ForgetSuggestions ==
  { SuggestionsInput(NULL, NULL, 5), SuggestionsInput("A", "debugging", 1) }

\* four days pass without a call
PassDays ==
  /\ now < ForgetStart + MaxSteps * StepMs
  /\ now' = now + StepMs
  /\ UNCHANGED <<store, last, vectors, statistics, inflight, searched>>

InitForget ==
  /\ \E n \in 1..MaxForgetRecords : \E f \in ProfileTables(n, ForgetProfiles) :
       store = ForgetTable(n, f)
  /\ now = ForgetStart
  /\ last = NoCall
  /\ vectors = VectorsOf(store)
  /\ statistics = StatisticsOf(store)
  /\ inflight = {}
  /\ searched = {}

NextForget ==
  \/ \E params \in ForgetSearches : SearchMemory(params)
  \/ \E inp \in ForgetSuggestions : GetSuggestions(inp)
  \/ PassDays

SpecForget == InitForget /\ [][NextForget]_vars

\* the ids of the forgotten_knowledge list of a memory_suggestions result
ForgottenIds(out) ==
  {out.forgotten_knowledge[x].memory_id : x \in 1..Len(out.forgotten_knowledge)}

\* the ids the forgotten-knowledge suggestions of a result name
ForgottenSuggestionIds(out) ==
  {out.suggestions[x].memory_id :
     x \in {y \in 1..Len(out.suggestions) : out.suggestions[y].type = "forgotten_knowledge"}}

\* C26: if a memory_search call returns record r at time t, then r appears
\* neither in forgotten_knowledge nor as a forgotten-knowledge suggestion in
\* the result of any suggestions call made at a time earlier than t + 14 days.
C26_SearchedNotForgotten ==
  Suggested =>
    \A h \in searched :
      (h.at <= last.at /\ last.at - h.at < ForgottenDays * DayMs) =>
        /\ h.id \notin ForgottenIds(last.out)
        /\ h.id \notin ForgottenSuggestionIds(last.out)

\* a suggestions call less than 14 days after a search lists as forgotten a
\* row the search did not return and leaves out the important row it returned
C26_Witness ==
  /\ Suggested
  /\ ForgottenIds(last.out) # {}
  /\ \E h \in searched :
       /\ h.at < last.at
       /\ last.at - h.at < ForgottenDays * DayMs
       /\ h.id \notin ForgottenIds(last.out)
       /\ store[h.id].importance_score >= ForgottenImportance
       /\ store[h.id].last_accessed = h.at

(***************************************************************************)
(* SpecEntities: recall over tables whose rows are inside the window or    *)
(* older and hold entities that are absent, a JSON array, text JSON.parse  *)
(* rejects, or the JSON text of one string.                                *)
(***************************************************************************)
\* the largest table the initial states hold
MaxEntityRecords == 3
\* age (in the window, older) x entities (array, unparsable, string, absent)
EntityProfiles == 2 * 4

EntityRow(id, p) ==
  LET kind == p \div 2
  IN Row(id, IF p % 2 = 0 THEN Now0 - 5 * MinuteMs + id ELSE Now0 - 2 * DayMs + id,
         FALSE, "A", "src/a.ts", "code", <<"note">>, "h",
         CASE kind = 0 -> JsonEntities(<<"a", "fetch">>)
           [] kind = 1 -> BadEntities(<<"a", "fetch">>)
           [] kind = 2 -> StringEntities(<<"a", "b">>)
           [] OTHER -> NoEntities,
         800, 2, NULLNUM)

EntityTable(n, f) == [i \in 1..n |-> EntityRow(i, f[i])]

EntityInputs == { RecallInput(NULL, NULL, 30, 10), RecallInput("A", NULL, 30, 1) }

InitEntities ==
  /\ \E n \in 0..MaxEntityRecords : \E f \in ProfileTables(n, EntityProfiles) :
       store = EntityTable(n, f)
  /\ now = Now0
  /\ last = NoCall
  /\ vectors = VectorsOf(store)
  /\ statistics = StatisticsOf(store)
  /\ inflight = {}
  /\ searched = {}

NextEntities ==
  \/ \E inp \in EntityInputs : RecallContext(inp)
  \/ Tick

SpecEntities == InitEntities /\ [][NextEntities]_vars

\* the entities column does not hold a parsable list
NotAList(r) == r.entities.kind \in {"bad", "string"}

\* the table with every entities text that is not a parsable list emptied
ListsOnly(st) ==
  [i \in 1..Len(st) |-> IF NotAList(st[i]) THEN [st[i] EXCEPT !.entities = NoEntities]
                        ELSE st[i]]

\* C27: if the entities field of an in-window record or of a recall candidate
\* is not a parsable list, analyze and recall still complete: the record
\* contributes no entities to the snapshot and no entity-overlap term to its
\* score, while its project, type, file_path, importance and access-frequency
\* contributions are still counted.
C27_BadEntitiesSkipped ==
  Recalled =>
    /\ LastContext =
         analyzeContext(RecentMemories(ListsOnly(store), LastCutoff, last.input))
    /\ \A x \in 1..Len(LastRecalled) :
         LET r == store[LastRecalled[x].id]
         IN NotAList(r) =>
              LastRecalled[x].relevance_score =
                Round3(ProjectTerm(r, LastContext) + ImportanceTerm(r) + AccessTerm(r))

\* C28: if a memory_search call fails with an error (for example while
\* decoding the stored entities JSON of a matched row), then no record's
\* access_count or last_accessed and no statistics counter (total_searches)
\* has been changed by that call, so a retry does not count accesses twice.
C28_FailedSearchChangesNothing ==
  [][ (last'.op = "search" /\ last' # last /\ "isError" \in DOMAIN last'.out) =>
        /\ statistics' = statistics
        /\ Len(store') = Len(store)
        /\ \A i \in 1..Len(store) :
             /\ store'[i].access_count = store[i].access_count
             /\ store'[i].last_accessed = store[i].last_accessed ]_vars

(***************************************************************************)
(* EmbeddingClient.waitForService: the startup loop of health checks.      *)
(* health[k] tells whether the k-th health check of the call succeeds.     *)
(***************************************************************************)
\* the loop from for (attempt; attempt <= maxAttempts; attempt++) on, after
\* checks health checks and delays delays
RECURSIVE waitFrom(_, _, _, _, _)
waitFrom(attempt, maxAttempts, health, checks, delays) ==
  IF ~(attempt <= maxAttempts)
    THEN [outcome |-> "returned", checks |-> checks, delays |-> delays]
  ELSE IF health[attempt]
    THEN [outcome |-> "returned", checks |-> checks + 1, delays |-> delays]
  ELSE IF attempt = maxAttempts
    THEN [outcome |-> "thrown", checks |-> checks + 1, delays |-> delays]
  ELSE waitFrom(attempt + 1, maxAttempts, health, checks + 1, delays + 1)

waitForService(maxAttempts, health) == waitFrom(1, maxAttempts, health, 0, 0)

\* the call
WaitForService(maxAttempts, health) ==
  /\ last' = [op |-> "wait", maxAttempts |-> maxAttempts, health |-> health, at |-> now,
              out |-> waitForService(maxAttempts, health)]
  /\ UNCHANGED <<store, now, vectors, statistics, inflight, searched>>

(***************************************************************************)
(* SpecWait: waitForService with maxAttempts from -1 up and every course   *)
(* of health checks.                                                       *)
(***************************************************************************)
\* the largest maxAttempts
MaxAttempts == 5

InitWait ==
  /\ store = <<>>
  /\ now = Now0
  /\ last = NoCall
  /\ vectors = VectorsOf(store)
  /\ statistics = StatisticsOf(store)
  /\ inflight = {}
  /\ searched = {}

NextWait ==
  \E maxAttempts \in (-1)..MaxAttempts : \E health \in [1..MaxAttempts -> BOOLEAN] :
    WaitForService(maxAttempts, health)

SpecWait == InitWait /\ [][NextWait]_vars

\* C29: waitForService(maxAttempts, delayMs) ends after at most maxAttempts
\* health checks: it returns normally iff one of those checks succeeded (at
\* the first success, without further checks or delays), and otherwise throws
\* 'not available' after exactly maxAttempts failed checks; it never returns
\* normally without a successful health check, for any integer maxAttempts.
C29_WaitForService ==
  last.op = "wait" =>
    LET out == last.out
        succeeded == {k \in 1..out.checks : last.health[k]}
    IN /\ out.checks <= Max(last.maxAttempts, 0)
       /\ out.outcome = "returned" <=> succeeded # {}
       /\ out.outcome = "returned" => (succeeded = {out.checks} /\ out.delays = out.checks - 1)
       /\ out.outcome = "thrown" => (succeeded = {} /\ out.checks = last.maxAttempts)

(***************************************************************************)
(* SuggestionClient.getSuggestions: the suggestion list of the client.     *)
(* Its getForgottenKnowledge and getPotentialIssues run the queries of the *)
(* tool; suggestionLimit is the option of the constructor.                 *)
(***************************************************************************)
\* options.suggestionLimit ?? 5
DefaultSuggestionLimit == 5

ClientGetSuggestions(st, t, project, contextType, suggestionLimit) ==
  LET context == ClientAnalyzeContext(st, t, project, NULL)
      forgotten == getForgottenKnowledge(st, t, project)
      fromForgotten(item) ==
        [ type |-> "forgotten_knowledge",
          title |-> Text("Review forgotten important memory", 0, 0),
          description |-> item.content_preview, priority |-> ForgottenPriority,
          action |-> "review", memory_id |-> item.memory_id, reason |-> item.reason ]
      issues == detectPotentialIssues(st, t, project)
      isHigh(i) == i.severity = "high"
      fromIssue(issue) ==
        [ type |-> "issue_suggestion", title |-> issue.title,
          description |-> issue.description, priority |-> IssuePriority,
          action |-> "investigate", memory_id |-> issue.memory_id,
          reason |-> Text("Potential issue detected", 0, 0) ]
      effectiveContextType ==
        IF Truthy(contextType) THEN contextType ELSE context.context_type
      pattern ==
        [ type |-> "pattern_suggestion", title |-> Text("Check error patterns", 0, 0),
          description |-> <<"You appear to be debugging. Consider checking past error resolutions.">>,
          priority |-> PatternPriority, action |-> "search_errors", memory_id |-> 0,
          reason |-> Text("Debugging context detected", 0, 0) ]
      higher(a, b) == a.priority > b.priority
      suggestions ==
        StableSort(
          Map(JsSlice0(forgotten, PerSourceSuggestions), fromForgotten)
          \o Map(JsSlice0(Filter(issues, isHigh), PerSourceSuggestions), fromIssue)
          \o (IF effectiveContextType = "debugging" THEN <<pattern>> ELSE <<>>),
          higher)
  IN JsSlice0(suggestions, suggestionLimit)

\* the call on a client constructed with suggestionLimit = inp.limit
ClientSuggestions(inp) ==
  /\ last' = [op |-> "client_suggest", input |-> inp, at |-> now,
              out |-> [suggestions |->
                         ClientGetSuggestions(store, now, inp.project, inp.context_type,
                                              inp.limit)]]
  /\ UNCHANGED <<store, now, vectors, statistics, inflight, searched>>

(***************************************************************************)
(* SpecSuggest: the client and the tool asked for suggestions on tables of *)
(* forgotten insights, forgotten code and recent error reports.            *)
(***************************************************************************)
\* the largest table the initial states hold
MaxSuggestRecords == 3
SuggestProfiles == 2 + 2

\* 0: an important note never accessed; 1: important code never accessed;
\* 2: an error report inside the window; 3: a plain note inside the window
SuggestRow(id, p) ==
  CASE p = 0 -> Row(id, Now0 - 2 * DayMs + id, FALSE, "A", NULL, "note", <<"use", "retries">>,
                    "h0", NoEntities, 800, 0, NULLNUM)
    [] p = 1 -> Row(id, Now0 - 2 * DayMs + id, FALSE, NULL, NULL, "code", <<"parse", "input">>,
                    "h1", NoEntities, 650, 0, NULLNUM)
    [] p = 2 -> Row(id, Now0 - 5 * MinuteMs + id, FALSE, "A", NULL, "note", <<"error", "again">>,
                    "h2", NoEntities, 500, 1, Now0 - 5 * MinuteMs)
    [] OTHER -> Row(id, Now0 - 5 * MinuteMs + id, FALSE, "A", NULL, "note", <<"plain">>,
                    "h3", NoEntities, 500, 1, Now0 - 5 * MinuteMs)

SuggestTable(n, f) == [i \in 1..n |-> SuggestRow(i, f[i])]

SuggestInputs ==
  { SuggestionsInput(project, context_type, limit) :
      project \in {NULL, "A"}, context_type \in {NULL, "debugging", "coding"},
      limit \in {1, DefaultSuggestionLimit} }

InitSuggest ==
  /\ \E n \in 0..MaxSuggestRecords : \E f \in ProfileTables(n, SuggestProfiles) :
       store = SuggestTable(n, f)
  /\ now = Now0
  /\ last = NoCall
  /\ vectors = VectorsOf(store)
  /\ statistics = StatisticsOf(store)
  /\ inflight = {}
  /\ searched = {}

NextSuggest ==
  \/ \E inp \in SuggestInputs : ClientSuggestions(inp)
  \/ \E inp \in SuggestInputs : GetSuggestions(inp)

SpecSuggest == InitSuggest /\ [][NextSuggest]_vars

\* what the comparison looks at: type, priority and referenced memory, in order
SuggestionKeys(suggestions) ==
  [x \in 1..Len(suggestions) |->
     <<suggestions[x].type, suggestions[x].priority, suggestions[x].memory_id>>]

\* C30: for every store state, project filter, context-type hint and limit,
\* SuggestionClient.getSuggestions returns the same ordered suggestion list
\* (same types, priorities and referenced memories) as the memory_suggestions
\* tool's getSuggestions called with the same inputs.
C30_ClientMatchesTool ==
  last.op = "client_suggest" =>
    SuggestionKeys(last.out.suggestions) =
      SuggestionKeys(getSuggestions(store, last.at, last.input).suggestions)

====
